---- MODULE Spec2Model ----
(***************************************************************************)
(* Entity-management service: step-wise entity assembly (stepEntity        *)
(* controller), approval workflow (entity controller), file endpoints      *)
(* (file controller), the Redis cache helpers and the Mongoose Entity      *)
(* schema.                                                                 *)
(*                                                                         *)
(* JavaScript objects are functions from field names to values; a key that *)
(* is missing from the object is missing from the DOMAIN.  The JavaScript  *)
(* value undefined is the atom Undefined.  Every request handler is an     *)
(* async function: it is cut at the awaits that touch the durable store or *)
(* the cache, and the position of every request in flight is kept in reqs. *)
(***************************************************************************)
EXTENDS Integers, Sequences, FiniteSets, TLC

(* ---------------------------- bounds ----------------------------------- *)
MaxReq == 2          \* request handlers that can be in flight together
MaxCalls == 6        \* requests started in one behaviour
MaxTemp == 1         \* temporary ids handed out in one behaviour
MaxEntities == 2     \* durable entities inserted in one behaviour
TickSeconds == 900   \* seconds that pass in one Tick
MaxApprovalCalls == 3 \* requests started in one behaviour of SpecApproval
MaxUniqueCalls == 3   \* requests started in one behaviour of SpecUnique
MaxSessions == 2      \* temporary ids handed out in one behaviour of SpecUnique
MaxDocs == 2          \* documents one entity holds
MaxMails == 3        \* notifications attempted in one behaviour
MaxSessionCalls == 4 \* requests started in one behaviour of SpecSession
MaxListCalls == 4    \* requests started in one behaviour of SpecList
MaxPage == 3         \* highest page number a list request asks for
MaxLimit == 2        \* highest page size a list request asks for
MaxReadCalls == 4    \* requests started in one behaviour of SpecRead
MaxRequiredCalls == 4 \* requests started in one behaviour of SpecRequired
MaxWriteCalls == 3    \* requests started in one behaviour of SpecWrites
MaxFinalizeCalls == 5 \* requests started in one behaviour of SpecFinalize
MaxStatsCalls == 3    \* requests started in one behaviour of SpecStats
MaxRaceCalls == 4     \* requests started in one behaviour of SpecRace

(* ------------------------ program constants ---------------------------- *)
TTL == 1800
totalSteps == 6

(* ------------------------- input domains ------------------------------- *)
Undefined == "undefined"
Now == "now"
Users == {"u1"}
Names == {"Jane"}
IdNums == {"ID1", "ID2"}
InquiryIds == {"INQ1", "INQ2"}
Emails == {"jane@x.com"}
Phones == {Undefined, "555"}
Dobs == {Undefined}
AddrA ==
  [street |-> "1 Main St", city |-> "Pune", state |-> "MH", country |-> "IN",
   postalCode |-> "411001"]
Addresses == {AddrA}
Photos == {"photo1"}
DocLists == {<<"doc1">>}
Extras == {Undefined, "extra"}

VARIABLES store, cache, reqs, nextTemp, nextId, calls, mails

vars == <<store, cache, reqs, nextTemp, nextId, calls, mails>>

Slots == 1..MaxReq

(* ------------------------- object helpers ------------------------------ *)
Empty == [k \in {} |-> k]

Obj1(k, v) == [x \in {k} |-> v]

\* { ...a, ...b }
Spread(a, b) == [k \in DOMAIN a \cup DOMAIN b |-> IF k \in DOMAIN b THEN b[k] ELSE a[k]]

\* keys whose values are never the atom Undefined (numbers and arrays)
StructKeys == {"step", "completedSteps", "documents", "_id", "address", "id", "fullAddress"}

Get(o, k) == IF k \in DOMAIN o THEN o[k] ELSE Undefined

Truthy(o, k) == k \in DOMAIN o /\ (k \in StructKeys \/ (o[k] # Undefined /\ o[k] # ""))

\* JSON.parse(JSON.stringify(o)): keys holding undefined are dropped
JSONRoundTrip(o) == [k \in {x \in DOMAIN o : x \in StructKeys \/ o[x] # Undefined} |-> o[k]]

Omit(o, ks) == [k \in DOMAIN o \ ks |-> o[k]]

(* ------------------------------ cache ---------------------------------- *)
TempKey(t) == <<"temp_entity", t>>
EntityKey(id) == <<"entity", id>>
PendingKey == <<"entities:pending", 0>>

\* a set that leaves an existing key as it is
setCache_KeepsExisting(c, key, value, ttl) ==
  IF key \in DOMAIN c THEN c
  ELSE [k \in DOMAIN c \cup {key} |->
          IF k = key THEN [value |-> JSONRoundTrip(value), ttl |-> ttl] ELSE c[k]]

\* client.setEx(key, ttl, JSON.stringify(value))
setCache(c, key, value, ttl) ==
  [k \in DOMAIN c \cup {key} |->
     IF k = key THEN [value |-> JSONRoundTrip(value), ttl |-> ttl] ELSE c[k]]

\* value ? JSON.parse(value) : null, and null as well when the client throws
\* (up = FALSE); hit tells a value from null
getCache(c, key, up) ==
  IF up /\ key \in DOMAIN c THEN [hit |-> TRUE, value |-> c[key].value]
  ELSE [hit |-> FALSE, value |-> Empty]

\* a delete that removes nothing
deleteCache_Noop(c, key) == c

\* client.del(key)
deleteCache(c, key) == [k \in DOMAIN c \ {key} |-> c[k]]

(* ----------------------------- requests -------------------------------- *)
\* op: the handler, pc: the await it is suspended at ("done": it has responded),
\* id: the :id / :tempEntityId parameter, arg and snap: its locals, res: its
\* response
IdleReq ==
  [op |-> "none", pc |-> "done", id |-> 0, arg |-> Empty, snap |-> Empty, res |-> "none"]

Free(r) == reqs[r].pc = "done"

\* the handlers are interchangeable: a new request takes the first free one
FirstFree(r) == Free(r) /\ \A q \in Slots : q < r => ~Free(q)

Begin(r, op, id, arg, pc, snap, res) ==
  /\ FirstFree(r)
  /\ calls < MaxCalls
  /\ calls' = calls + 1
  /\ reqs' = [reqs EXCEPT ![r] = [op |-> op, pc |-> pc, id |-> id, arg |-> arg,
                                  snap |-> snap, res |-> res]]

\* the handler responds: its locals are gone, the response stays
Finish(r, out, res) ==
  reqs' = [reqs EXCEPT ![r].pc = "done", ![r].arg = Empty, ![r].snap = out, ![r].res = res]

\* this step is the arrival of the request that handler r serves
Began(r) == FirstFree(r) /\ calls' = calls + 1

Goto(r, pc, snap) ==
  reqs' = [reqs EXCEPT ![r].pc = pc, ![r].snap = snap]

Init ==
  /\ store = Empty
  /\ cache = Empty
  /\ reqs = [r \in Slots |-> IdleReq]
  /\ nextTemp = 1
  /\ nextId = 1
  /\ calls = 0
  /\ mails = <<>>

(* ----------------------- durable store (Mongoose) ---------------------- *)
SchemaKeys ==
  {"name", "identificationNumber", "inquiryId", "email", "phone", "dateOfBirth",
   "address", "profilePhoto", "documents", "status", "approvedBy", "rejectedBy",
   "approvalDate", "rejectionDate", "approvalNotes", "rejectionReason",
   "createdBy", "additionalData"}

RequiredKeys == {"name", "identificationNumber", "inquiryId", "email", "address"}

UniqueKeys == {"identificationNumber", "inquiryId"}

StatusEnum == {"PENDING", "APPROVED", "REJECTED", "UNDER_REVIEW"}

\* new Entity(data): strict schema, defaults for status and documents
EntitySchema(data) ==
  LET given == JSONRoundTrip(data) IN
  Spread([status |-> "PENDING", documents |-> <<>>],
         [k \in DOMAIN given \cap SchemaKeys |-> given[k]])

AddressKeys == {"street", "city", "state", "country", "postalCode"}

\* AddressSchema: every subfield is required
AddressValidates(address) == \A k \in AddressKeys : Truthy(address, k)

\* a validation that takes any address for a complete one
Validates_AnyAddress(doc) ==
  /\ \A k \in RequiredKeys : Truthy(doc, k)
  /\ doc["status"] \in StatusEnum

\* built-in validation: required paths, the address subdocument, the status enum
Validates(doc) ==
  /\ \A k \in RequiredKeys : Truthy(doc, k)
  /\ AddressValidates(doc["address"])
  /\ doc["status"] \in StatusEnum

\* the virtual fullAddress: the five subfields in the order of the template
fullAddress(doc) ==
  LET a == doc["address"] IN
  <<Get(a, "street"), Get(a, "city"), Get(a, "state"), Get(a, "country"), Get(a, "postalCode")>>

\* entity.toJSON() with virtuals: true adds id and fullAddress
toJSON(doc) == Spread(doc, [id |-> doc["_id"], fullAddress |-> fullAddress(doc)])

RefKeys == {"createdBy", "approvedBy", "rejectedBy"}

\* the users collection, as .populate(path, 'firstName lastName email') shows it
UserDocs == [u1 |-> "u1 firstName lastName email"]

\* .populate() of the three user references
Populate(doc) ==
  [k \in DOMAIN doc |->
     IF k \in RefKeys
     THEN IF doc[k] \in DOMAIN UserDocs THEN UserDocs[doc[k]] ELSE "null"
     ELSE doc[k]]

\* EntitySchema.pre('save'): runs after the built-in validation hook
preSave(doc) ==
  IF Truthy(doc, "inquiryId") THEN doc ELSE Spread(doc, [inquiryId |-> "INQ-generated"])

\* a unique index on identificationNumber only
DuplicateKey_IdNumOnly(s, doc, self) ==
  \E id \in DOMAIN s \ {self} :
    "identificationNumber" \in DOMAIN doc
      /\ s[id]["identificationNumber"] = doc["identificationNumber"]

\* unique indexes on identificationNumber and inquiryId
DuplicateKey(s, doc, self) ==
  \E id \in DOMAIN s \ {self} : \E k \in UniqueKeys :
    k \in DOMAIN doc /\ k \in DOMAIN s[id] /\ s[id][k] = doc[k]

\* an Entity.create whose hook runs before the validation and whose collection
\* has no unique index
CreateOutcome_NoIndex(s, data) ==
  IF ~Validates(preSave(EntitySchema(data))) THEN "ValidationError" ELSE "ok"

\* outcome of Entity.create(data)
CreateOutcome(s, data) ==
  IF ~Validates(EntitySchema(data)) THEN "ValidationError"
  ELSE IF DuplicateKey(s, preSave(EntitySchema(data)), 0) THEN "DuplicateKey"
  ELSE "ok"

\* the document Entity.create(data) inserts under a fresh _id
CreatedDoc(data, id) == Spread(preSave(EntitySchema(data)), Obj1("_id", id))

Insert(s, doc) == [i \in DOMAIN s \cup {doc["_id"]} |-> IF i = doc["_id"] THEN doc ELSE s[i]]

(* ------------------------ step workflow engine ------------------------- *)
\* the temporary ids handed out so far and one that was never handed out
TempIds == 1..nextTemp

StepOps == {"step2", "step3", "step4", "step5"}

StepNo(op) == CASE op = "step2" -> 2 [] op = "step3" -> 3 [] op = "step4" -> 4 [] op = "step5" -> 5

StepTag(op) ==
  CASE op = "step2" -> "contact_info" [] op = "step3" -> "address_info"
    [] op = "step4" -> "profile_photo" [] op = "step5" -> "documents"

\* the fields a step handler puts after ...tempEntityData
StepFields(op, body) ==
  CASE op = "step2" -> [email |-> Get(body, "email"), phone |-> Get(body, "phone"),
                        dateOfBirth |-> Get(body, "dateOfBirth")]
    [] op = "step3" -> [address |-> Get(body, "address")]
    [] op = "step4" -> [profilePhoto |-> Get(body, "profilePhotoData")]
    [] op = "step5" -> [documents |-> IF "documents" \in DOMAIN body THEN body["documents"] ELSE <<>>]

\* a step that starts completedSteps afresh with its own tag
updatedEntityData_ResetsList(op, tempEntityData, body) ==
  Spread(Spread(tempEntityData, StepFields(op, body)),
         [step |-> StepNo(op), completedSteps |-> <<StepTag(op)>>])

\* a step that writes its own fields only, without ...tempEntityData
updatedEntityData_Replace(op, tempEntityData, body) ==
  Spread(StepFields(op, body),
         [step |-> StepNo(op),
          completedSteps |-> Append(tempEntityData["completedSteps"], StepTag(op))])

\* { ...tempEntityData, <the step's fields>, step: N, completedSteps: [..., tag] }
updatedEntityData(op, tempEntityData, body) ==
  Spread(Spread(tempEntityData, StepFields(op, body)),
         [step |-> StepNo(op),
          completedSteps |-> Append(tempEntityData["completedSteps"], StepTag(op))])

Step1Data(name, idnum, user) ==
  [name |-> name, identificationNumber |-> idnum, createdBy |-> user,
   status |-> "PENDING", step |-> 1, completedSteps |-> <<"basic_info">>]

\* the duplicate query on the wrong field
ExistsIdNum_ByInquiryId(s, idnum) == \E id \in DOMAIN s : Get(s[id], "inquiryId") = idnum

\* Entity.findOne({ identificationNumber })
ExistsIdNum(s, idnum) == \E id \in DOMAIN s : Get(s[id], "identificationNumber") = idnum

\* limit: the temporary ids a specification lets the service hand out
createEntityStep1(r, limit) ==
  \E name \in Names, idnum \in IdNums, user \in Users :
    LET body == [name |-> name, identificationNumber |-> idnum] IN
    IF ExistsIdNum(store, idnum)
    THEN /\ Begin(r, "step1", 0, body, "done", Empty, "DuplicateIdentifier")
         /\ UNCHANGED <<store, cache, nextTemp, nextId, mails>>
    ELSE /\ nextTemp <= limit
         /\ nextTemp' = nextTemp + 1
         /\ \E up \in BOOLEAN :
              IF up
              THEN /\ cache' = setCache(cache, TempKey(nextTemp), Step1Data(name, idnum, user), TTL)
                   /\ Begin(r, "step1", nextTemp, body, "done", Empty, "Step1Done")
              ELSE /\ cache' = cache
                   /\ Begin(r, "step1", nextTemp, body, "done", Empty, "StorageFailure")
         /\ UNCHANGED <<store, nextId, mails>>

\* StepGet without the 404 return: the handler goes on with whatever it read
StepGet_NoExpiryCheck(r, op, t, body, next) ==
  /\ \E up \in BOOLEAN :
       Begin(r, op, t, body, next, getCache(cache, TempKey(t), up).value, "none")
  /\ UNCHANGED <<store, cache, nextTemp, nextId, mails>>

\* a StepGet that refuses a step whose predecessor is not the record's step
StepGet_InOrder(r, op, t, body, next) ==
  /\ \E up \in BOOLEAN :
       LET tempEntityData == getCache(cache, TempKey(t), up)
           before == CASE op = "step2" -> 1 [] op = "step3" -> 2 [] op = "step4" -> 3
                       [] op = "step5" -> 4 [] OTHER -> 5
       IN
       IF ~tempEntityData.hit
       THEN Begin(r, op, t, Empty, "done", Empty, "SessionExpired")
       ELSE IF tempEntityData.value["step"] # before
       THEN Begin(r, op, t, Empty, "done", Empty, "OutOfOrder")
       ELSE Begin(r, op, t, body, next, tempEntityData.value, "none")
  /\ UNCHANGED <<store, cache, nextTemp, nextId, mails>>

\* const tempEntityData = await getCache(...); if (!tempEntityData) return 404
StepGet(r, op, t, body, next) ==
  /\ \E up \in BOOLEAN :
       LET tempEntityData == getCache(cache, TempKey(t), up) IN
       IF tempEntityData.hit
       THEN Begin(r, op, t, body, next, tempEntityData.value, "none")
       ELSE Begin(r, op, t, Empty, "done", Empty, "SessionExpired")
  /\ UNCHANGED <<store, cache, nextTemp, nextId, mails>>

\* a step write inside try/catch: the step answers as done when the write failed
StepSet_SwallowsFailure(r, op) ==
  /\ reqs[r].op = op
  /\ reqs[r].pc = "write"
  /\ LET data == updatedEntityData(op, reqs[r].snap, reqs[r].arg) IN
     \E up \in BOOLEAN :
       IF up
       THEN /\ cache' = setCache(cache, TempKey(reqs[r].id), data, TTL)
            /\ Finish(r, Empty, "StepDone")
       ELSE /\ cache' = cache
            /\ Finish(r, Empty, "StepDone")
  /\ UNCHANGED <<store, nextTemp, nextId, calls, mails>>

\* a step write that merges into the record the cache holds at the write
StepSet_Rereads(r, op) ==
  /\ reqs[r].op = op
  /\ reqs[r].pc = "write"
  /\ LET key == TempKey(reqs[r].id)
         current == IF key \in DOMAIN cache THEN cache[key].value ELSE reqs[r].snap
         data == updatedEntityData(op, current, reqs[r].arg)
     IN
     \E up \in BOOLEAN :
       IF up
       THEN /\ cache' = setCache(cache, key, data, TTL)
            /\ Finish(r, Empty, "StepDone")
       ELSE /\ cache' = cache
            /\ Finish(r, Empty, "StorageFailure")
  /\ UNCHANGED <<store, nextTemp, nextId, calls, mails>>

\* await setCache(`temp_entity:${tempEntityId}`, updatedEntityData, 1800)
StepSet(r, op) ==
  /\ reqs[r].op = op
  /\ reqs[r].pc = "write"
  /\ LET data == updatedEntityData(op, reqs[r].snap, reqs[r].arg) IN
     \E up \in BOOLEAN :
       IF up
       THEN /\ cache' = setCache(cache, TempKey(reqs[r].id), data, TTL)
            /\ Finish(r, Empty, "StepDone")
       ELSE /\ cache' = cache
            /\ Finish(r, Empty, "StorageFailure")
  /\ UNCHANGED <<store, nextTemp, nextId, calls, mails>>

\* a step handler under request bodies that carry more or less than its fields
LooseStep(r, op, Bodies) ==
  \/ \E t \in TempIds, body \in Bodies : StepGet(r, op, t, body, "write")
  \/ StepSet(r, op)

createEntityStep2(r) ==
  \/ \E t \in TempIds, email \in Emails, phone \in Phones, dob \in Dobs :
       StepGet(r, "step2", t, [email |-> email, phone |-> phone, dateOfBirth |-> dob], "write")
  \/ StepSet(r, "step2")

createEntityStep3(r) ==
  \/ \E t \in TempIds, address \in Addresses :
       StepGet(r, "step3", t, [address |-> address], "write")
  \/ StepSet(r, "step3")

createEntityStep4(r) ==
  \/ \E t \in TempIds, photo \in Photos :
       StepGet(r, "step4", t, [profilePhotoData |-> photo], "write")
  \/ StepSet(r, "step4")

createEntityStep5(r) ==
  \/ \E t \in TempIds, docs \in DocLists :
       StepGet(r, "step5", t, [documents |-> docs], "write")
  \/ \E t \in TempIds : StepGet(r, "step5", t, Empty, "write")
  \/ StepSet(r, "step5")

\* const { step, completedSteps, ...finalEntityData } = tempEntityData, plus additionalData
finalEntityData(tempEntityData, body) ==
  IF Truthy(body, "additionalData")
  THEN Spread(Omit(tempEntityData, {"step", "completedSteps"}),
              [additionalData |-> body["additionalData"]])
  ELSE Omit(tempEntityData, {"step", "completedSteps"})

\* Entity.create and the statements after it.  Entity.create rejects a record
\* without inquiryId, and no step writes inquiryId, so the statements after it
\* run only for a record that carries one.
createEntityStep6(r) ==
  \/ \E t \in TempIds, extra \in Extras :
       StepGet(r, "step6", t, [additionalData |-> extra], "create")
  \/ /\ reqs[r].op = "step6"
     /\ reqs[r].pc = "create"
     /\ LET data == finalEntityData(reqs[r].snap, reqs[r].arg)
            outcome == CreateOutcome(store, data)
            entity == CreatedDoc(data, nextId)
        IN
        IF outcome # "ok"
        THEN /\ Finish(r, Empty, outcome)
             /\ UNCHANGED <<store, cache, nextId>>
        ELSE /\ nextId <= MaxEntities
             /\ nextId' = nextId + 1
             /\ store' = Insert(store, entity)
             /\ \E up \in BOOLEAN :
                  IF up
                  THEN /\ cache' = deleteCache(setCache(cache, EntityKey(nextId), toJSON(entity), TTL),
                                               TempKey(reqs[r].id))
                       /\ Finish(r, entity, "Created")
                  ELSE /\ cache' = cache
                       /\ Finish(r, entity, "StorageFailure")
     /\ UNCHANGED <<nextTemp, calls, mails>>

NullStep == 0

\* the percentage cut off instead of rounded
progress_Floor(n) == (n * 100) \div totalSteps

\* Math.round((completedSteps.length / totalSteps) * 100)
progress(n) == (n * 200 + totalSteps) \div (2 * totalSteps)

ProgressInfo(tempEntityData) ==
  LET currentStep == IF "step" \in DOMAIN tempEntityData /\ tempEntityData["step"] # 0
                     THEN tempEntityData["step"] ELSE 1
      completedSteps == IF "completedSteps" \in DOMAIN tempEntityData
                        THEN tempEntityData["completedSteps"] ELSE <<>>
  IN [currentStep |-> currentStep,
      totalSteps |-> totalSteps,
      completedSteps |-> completedSteps,
      progress |-> progress(Len(completedSteps)),
      nextStep |-> IF currentStep < totalSteps THEN currentStep + 1 ELSE NullStep,
      entityData |-> Omit(tempEntityData, {"step", "completedSteps"})]

\* a progress read that writes the record back and so restarts its expiry
getEntityProgress_Refreshes(r) ==
  /\ \E t \in TempIds, up \in BOOLEAN :
       LET tempEntityData == getCache(cache, TempKey(t), up) IN
       IF tempEntityData.hit
       THEN /\ cache' = setCache(cache, TempKey(t), tempEntityData.value, TTL)
            /\ Begin(r, "progress", t, Empty, "done", ProgressInfo(tempEntityData.value), "Progress")
       ELSE /\ cache' = cache
            /\ Begin(r, "progress", t, Empty, "done", Empty, "SessionExpired")
  /\ UNCHANGED <<store, nextTemp, nextId, mails>>

\* GET /:tempEntityId/progress
getEntityProgress(r) ==
  /\ \E t \in TempIds, up \in BOOLEAN :
       LET tempEntityData == getCache(cache, TempKey(t), up) IN
       IF tempEntityData.hit
       THEN Begin(r, "progress", t, Empty, "done", ProgressInfo(tempEntityData.value), "Progress")
       ELSE Begin(r, "progress", t, Empty, "done", Empty, "SessionExpired")
  /\ UNCHANGED <<store, cache, nextTemp, nextId, mails>>

\* a cancel that answers 404 when there is no record
cancelEntityCreation_RequiresRecord(r) ==
  /\ \E t \in TempIds, up \in BOOLEAN :
       IF TempKey(t) \notin DOMAIN cache
       THEN /\ cache' = cache
            /\ Begin(r, "cancel", t, Empty, "done", Empty, "SessionExpired")
       ELSE IF up
       THEN /\ cache' = deleteCache(cache, TempKey(t))
            /\ Begin(r, "cancel", t, Empty, "done", Empty, "Cancelled")
       ELSE /\ cache' = cache
            /\ Begin(r, "cancel", t, Empty, "done", Empty, "StorageFailure")
  /\ UNCHANGED <<store, nextTemp, nextId, mails>>

\* await deleteCache(...); res.status(200)
cancelEntityCreation(r) ==
  /\ \E t \in TempIds, up \in BOOLEAN :
       IF up
       THEN /\ cache' = deleteCache(cache, TempKey(t))
            /\ Begin(r, "cancel", t, Empty, "done", Empty, "Cancelled")
       ELSE /\ cache' = cache
            /\ Begin(r, "cancel", t, Empty, "done", Empty, "StorageFailure")
  /\ UNCHANGED <<store, nextTemp, nextId, mails>>

\* Redis expiry: TickSeconds pass, entries whose ttl ran out are evicted
Tick ==
  /\ cache # Empty
  /\ cache' = [k \in {x \in DOMAIN cache : cache[x].ttl > TickSeconds} |->
                 [cache[k] EXCEPT !.ttl = cache[k].ttl - TickSeconds]]
  /\ UNCHANGED <<store, reqs, nextTemp, nextId, calls, mails>>

(* ------------------------- entity controller --------------------------- *)
CreateBodies ==
  { Spread([name |-> n, identificationNumber |-> i, email |-> e, address |-> a], x) :
      n \in Names, i \in IdNums, e \in Emails, a \in Addresses,
      x \in {Empty} \cup {[inquiryId |-> q] : q \in InquiryIds} }

\* an entityData in which the fields of the body come last
entityData_BodyLast(body, user) == Spread([createdBy |-> user, status |-> "PENDING"], body)

\* { ...req.body, createdBy: req.user?._id, status: 'PENDING' }
entityData(body, user) == Spread(body, [createdBy |-> user, status |-> "PENDING"])

\* Bodies: the request bodies the clients of a specification send
createEntity(r, Bodies) ==
  \/ /\ \E body \in Bodies, user \in Users :
          LET outcome == CreateOutcome(store, entityData(body, user))
              entity == CreatedDoc(entityData(body, user), nextId)
          IN
          IF outcome # "ok"
          THEN /\ Begin(r, "create", 0, Empty, "done", Empty, outcome)
               /\ UNCHANGED <<store, nextId>>
          ELSE /\ nextId <= MaxEntities
               /\ nextId' = nextId + 1
               /\ store' = Insert(store, entity)
               /\ Begin(r, "create", nextId, body, "cache", entity, "none")
     /\ UNCHANGED <<cache, nextTemp, mails>>
  \/ /\ reqs[r].op = "create"
     /\ reqs[r].pc = "cache"
     /\ \E up \in BOOLEAN :
          IF up
          THEN /\ cache' = setCache(cache, EntityKey(reqs[r].id), toJSON(reqs[r].snap), TTL)
               /\ reqs' = [reqs EXCEPT ![r].pc = "pending"]
          ELSE /\ cache' = cache
               /\ Finish(r, Empty, "StorageFailure")
     /\ UNCHANGED <<store, nextTemp, nextId, calls, mails>>
  \/ /\ reqs[r].op = "create"
     /\ reqs[r].pc = "pending"
     /\ \E up \in BOOLEAN :
          LET cached == getCache(cache, PendingKey, up)
              pendingEntities == IF cached.hit THEN cached.value["list"] ELSE <<>>
          IN reqs' = [reqs EXCEPT ![r].pc = "pendingSet",
                                  ![r].arg = [list |-> <<JSONRoundTrip(toJSON(reqs[r].snap))>>
                                                          \o pendingEntities]]
     /\ UNCHANGED <<store, cache, nextTemp, nextId, calls, mails>>
  \/ /\ reqs[r].op = "create"
     /\ reqs[r].pc = "pendingSet"
     /\ \E up \in BOOLEAN :
          IF up
          THEN /\ cache' = [k \in DOMAIN cache \cup {PendingKey} |->
                              IF k = PendingKey THEN [value |-> reqs[r].arg, ttl |-> TTL]
                              ELSE cache[k]]
               /\ Finish(r, Empty, "Created")
          ELSE /\ cache' = cache
               /\ Finish(r, Empty, "StorageFailure")
     /\ UNCHANGED <<store, nextTemp, nextId, calls, mails>>

EntityIds == 1..MaxEntities

Editable == {"PENDING", "UNDER_REVIEW"}

\* update validators (runValidators: true) on the paths of the update
UpdateValidates(body) ==
  /\ \A k \in DOMAIN body \cap RequiredKeys : Truthy(body, k)
  /\ "address" \in DOMAIN body => AddressValidates(body["address"])
  /\ "status" \in DOMAIN body => body["status"] \in StatusEnum

\* the update gate that only stops approved entities
UpdateCheck_OnlyApproved(s, id) ==
  IF id \notin DOMAIN s THEN "NotFound"
  ELSE IF s[id]["status"] = "APPROVED" THEN "InvalidState"
  ELSE "ok"

\* findById and the checks before the update
UpdateCheck(s, id) ==
  IF id \notin DOMAIN s THEN "NotFound"
  ELSE IF s[id]["status"] \notin Editable THEN "InvalidState"
  ELSE "ok"

\* Bodies: the request bodies the clients of a specification send
updateEntity(r, Bodies) ==
  \/ /\ \E id \in EntityIds, body \in Bodies :
          LET outcome == UpdateCheck(store, id) IN
          IF outcome # "ok"
          THEN Begin(r, "update", id, Empty, "done", Empty, outcome)
          ELSE Begin(r, "update", id, [set |-> body, seen |-> store[id]["status"]],
                     "update", Empty, "none")
     /\ UNCHANGED <<store, cache, nextTemp, nextId, mails>>
  \/ /\ reqs[r].op = "update"
     /\ reqs[r].pc = "update"
     /\ LET id == reqs[r].id
            body == reqs[r].arg["set"]
            set == [k \in DOMAIN body \cap SchemaKeys |-> body[k]]
        IN
        IF ~UpdateValidates(set)
        THEN /\ Finish(r, Empty, "ValidationError")
             /\ store' = store
        ELSE IF id \notin DOMAIN store
        THEN /\ Finish(r, Empty, "Error")
             /\ store' = store
        ELSE IF DuplicateKey(store, set, id)
        THEN /\ Finish(r, Empty, "DuplicateKey")
             /\ store' = store
        ELSE /\ store' = [store EXCEPT ![id] = Spread(@, set)]
             /\ Goto(r, "cache", Spread(store[id], set))
     /\ UNCHANGED <<cache, nextTemp, nextId, calls, mails>>
  \/ /\ reqs[r].op = "update"
     /\ reqs[r].pc = "cache"
     /\ \E up \in BOOLEAN :
          IF up
          THEN /\ cache' = setCache(cache, EntityKey(reqs[r].id), toJSON(reqs[r].snap), TTL)
               /\ Finish(r, Empty, "Updated")
          ELSE /\ cache' = cache
               /\ Finish(r, Empty, "StorageFailure")
     /\ UNCHANGED <<store, nextTemp, nextId, calls, mails>>

\* a getEntity that does not fill the cache after reading the store
getEntity_NoFill(r) ==
  \/ /\ \E id \in EntityIds, up \in BOOLEAN :
          LET cached == getCache(cache, EntityKey(id), up) IN
          IF cached.hit
          THEN Begin(r, "get", id, Obj1("cacheUp", up), "done", cached.value, "Found")
          ELSE Begin(r, "get", id, Obj1("cacheUp", up), "find", Empty, "none")
     /\ UNCHANGED <<store, cache, nextTemp, nextId, mails>>
  \/ /\ reqs[r].op = "get"
     /\ reqs[r].pc = "find"
     /\ IF reqs[r].id \notin DOMAIN store
        THEN Finish(r, Empty, "NotFound")
        ELSE Goto(r, "cache", toJSON(Populate(store[reqs[r].id])))
     /\ UNCHANGED <<store, cache, nextTemp, nextId, calls, mails>>
  \/ /\ reqs[r].op = "get"
     /\ reqs[r].pc = "cache"
     /\ Finish(r, reqs[r].snap, "Found")
     /\ UNCHANGED <<store, cache, nextTemp, nextId, calls, mails>>

\* GET /api/entities/:id: cache first, then the store and a cache fill
getEntity(r) ==
  \/ /\ \E id \in EntityIds, up \in BOOLEAN :
          LET cached == getCache(cache, EntityKey(id), up) IN
          IF cached.hit
          THEN Begin(r, "get", id, Obj1("cacheUp", up), "done", cached.value, "Found")
          ELSE Begin(r, "get", id, Obj1("cacheUp", up), "find", Empty, "none")
     /\ UNCHANGED <<store, cache, nextTemp, nextId, mails>>
  \/ /\ reqs[r].op = "get"
     /\ reqs[r].pc = "find"
     /\ IF reqs[r].id \notin DOMAIN store
        THEN Finish(r, Empty, "NotFound")
        ELSE Goto(r, "cache", toJSON(Populate(store[reqs[r].id])))
     /\ UNCHANGED <<store, cache, nextTemp, nextId, calls, mails>>
  \/ /\ reqs[r].op = "get"
     /\ reqs[r].pc = "cache"
     /\ \E up \in BOOLEAN :
          IF up
          THEN /\ cache' = setCache(cache, EntityKey(reqs[r].id), reqs[r].snap, TTL)
               /\ Finish(r, reqs[r].snap, "Found")
          ELSE /\ cache' = cache
               /\ Finish(r, Empty, "StorageFailure")
     /\ UNCHANGED <<store, nextTemp, nextId, calls, mails>>

\* a delete that refuses entities that were approved or rejected
deleteEntity_KeepsDecided(r) ==
  \/ /\ \E id \in EntityIds :
          IF id \notin DOMAIN store
          THEN Begin(r, "delete", id, Empty, "done", Empty, "NotFound")
          ELSE IF store[id]["status"] \notin Editable
          THEN Begin(r, "delete", id, Empty, "done", Empty, "InvalidState")
          ELSE Begin(r, "delete", id, Empty, "delete", Empty, "none")
     /\ UNCHANGED <<store, cache, nextTemp, nextId, mails>>
  \/ /\ reqs[r].op = "delete"
     /\ reqs[r].pc = "delete"
     /\ store' = [i \in DOMAIN store \ {reqs[r].id} |-> store[i]]
     /\ Goto(r, "uncache", Empty)
     /\ UNCHANGED <<cache, nextTemp, nextId, calls, mails>>
  \/ /\ reqs[r].op = "delete"
     /\ reqs[r].pc = "uncache"
     /\ \E up \in BOOLEAN :
          IF up
          THEN /\ cache' = deleteCache(cache, EntityKey(reqs[r].id))
               /\ Finish(r, Empty, "Deleted")
          ELSE /\ cache' = cache
               /\ Finish(r, Empty, "StorageFailure")
     /\ UNCHANGED <<store, nextTemp, nextId, calls, mails>>

\* DELETE /api/entities/:id
deleteEntity(r) ==
  \/ /\ \E id \in EntityIds :
          IF id \notin DOMAIN store
          THEN Begin(r, "delete", id, Empty, "done", Empty, "NotFound")
          ELSE Begin(r, "delete", id, Empty, "delete", Empty, "none")
     /\ UNCHANGED <<store, cache, nextTemp, nextId, mails>>
  \/ /\ reqs[r].op = "delete"
     /\ reqs[r].pc = "delete"
     /\ store' = [i \in DOMAIN store \ {reqs[r].id} |-> store[i]]
     /\ Goto(r, "uncache", Empty)
     /\ UNCHANGED <<cache, nextTemp, nextId, calls, mails>>
  \/ /\ reqs[r].op = "delete"
     /\ reqs[r].pc = "uncache"
     /\ \E up \in BOOLEAN :
          IF up
          THEN /\ cache' = deleteCache(cache, EntityKey(reqs[r].id))
               /\ Finish(r, Empty, "Deleted")
          ELSE /\ cache' = cache
               /\ Finish(r, Empty, "StorageFailure")
     /\ UNCHANGED <<store, nextTemp, nextId, calls, mails>>

\* the paths an assignment marks modified: those whose value differs
Modified(doc, set, always) == {k \in DOMAIN set : k \in always \/ Get(doc, k) # set[k]}

\* a save that never reaches the store
save_Skipped(s, id, entity, paths) == s

\* entity.save() of a loaded document: $set / $unset of the modified paths
save(s, id, entity, paths) ==
  [s EXCEPT ![id] = JSONRoundTrip(Spread(@, [k \in paths |-> entity[k]]))]

\* the notification without its try/catch: the error reaches the response
Notified_Propagates(sent, okRes) == IF sent THEN okRes ELSE "Error"

\* try { await sendApprovalEmail(...) } catch { console.error(...) }: the
\* response after the notification was attempted
Notified(sent, okRes) == okRes

\* the phases with a compensating write: a refused cache write puts the status
\* the handler had read back into the store and removes the paths it had saved
Decide_RollsBack(r, op, kind, okRes) ==
  \/ /\ reqs[r].op = op
     /\ reqs[r].pc = "save"
     /\ IF reqs[r].id \notin DOMAIN store
        THEN /\ Finish(r, Empty, "Error")
             /\ store' = store
        ELSE /\ store' = save(store, reqs[r].id, reqs[r].snap, reqs[r].arg["paths"])
             /\ reqs' = [reqs EXCEPT ![r].pc = "cache"]
     /\ UNCHANGED <<cache, nextTemp, nextId, calls, mails>>
  \/ /\ reqs[r].op = op
     /\ reqs[r].pc = "cache"
     /\ \E up \in BOOLEAN :
          IF up
          THEN /\ cache' = setCache(cache, EntityKey(reqs[r].id), toJSON(reqs[r].snap), TTL)
               /\ reqs' = [reqs EXCEPT ![r].pc = "mail"]
               /\ store' = store
          ELSE /\ cache' = cache
               /\ Finish(r, Empty, "StorageFailure")
               /\ store' = [store EXCEPT ![reqs[r].id] =
                               Spread(Omit(@, reqs[r].arg["paths"]),
                                      [status |-> reqs[r].arg["seen"]])]
     /\ UNCHANGED <<nextTemp, nextId, calls, mails>>
  \/ /\ reqs[r].op = op
     /\ reqs[r].pc = "mail"
     /\ Len(mails) < MaxMails
     /\ \E sent \in BOOLEAN :
          /\ mails' = Append(mails, [kind |-> kind, to |-> Get(reqs[r].snap, "email"),
                                     id |-> reqs[r].id, sent |-> sent])
          /\ Finish(r, toJSON(reqs[r].snap), Notified(sent, okRes))
     /\ UNCHANGED <<store, cache, nextTemp, nextId, calls>>

\* phases shared by approveEntity and rejectEntity after the status checks
Decide(r, op, kind, okRes) ==
  \/ /\ reqs[r].op = op
     /\ reqs[r].pc = "save"
     /\ IF reqs[r].id \notin DOMAIN store
        THEN /\ Finish(r, Empty, "Error")
             /\ store' = store
        ELSE /\ store' = save(store, reqs[r].id, reqs[r].snap, reqs[r].arg["paths"])
             /\ reqs' = [reqs EXCEPT ![r].pc = "cache"]
     /\ UNCHANGED <<cache, nextTemp, nextId, calls, mails>>
  \/ /\ reqs[r].op = op
     /\ reqs[r].pc = "cache"
     /\ \E up \in BOOLEAN :
          IF up
          THEN /\ cache' = setCache(cache, EntityKey(reqs[r].id), toJSON(reqs[r].snap), TTL)
               /\ reqs' = [reqs EXCEPT ![r].pc = "mail"]
          ELSE /\ cache' = cache
               /\ Finish(r, Empty, "StorageFailure")
     /\ UNCHANGED <<store, nextTemp, nextId, calls, mails>>
  \/ /\ reqs[r].op = op
     /\ reqs[r].pc = "mail"
     /\ Len(mails) < MaxMails
     /\ \E sent \in BOOLEAN :
          /\ mails' = Append(mails, [kind |-> kind, to |-> Get(reqs[r].snap, "email"),
                                     id |-> reqs[r].id, sent |-> sent])
          /\ Finish(r, toJSON(reqs[r].snap), Notified(sent, okRes))
     /\ UNCHANGED <<store, cache, nextTemp, nextId, calls>>

Notes == {"verified"}

\* the approval checks without the already-approved return
ApproveCheck_ApprovesAgain(s, id) ==
  IF id \notin DOMAIN s THEN "NotFound"
  ELSE IF s[id]["status"] = "REJECTED" THEN "InvalidTransition"
  ELSE "ok"

\* the approval checks without the rejected return
ApproveCheck_ForgetsRejected(s, id) ==
  IF id \notin DOMAIN s THEN "NotFound"
  ELSE IF s[id]["status"] = "APPROVED" THEN "AlreadyApproved"
  ELSE "ok"

\* findById and the checks before the approval
ApproveCheck(s, id) ==
  IF id \notin DOMAIN s THEN "NotFound"
  ELSE IF s[id]["status"] = "APPROVED" THEN "AlreadyApproved"
  ELSE IF s[id]["status"] = "REJECTED" THEN "InvalidTransition"
  ELSE "ok"

approveEntity(r) ==
  \/ /\ \E id \in EntityIds, user \in Users, approvalNotes \in Notes :
          LET outcome == ApproveCheck(store, id) IN
          IF outcome # "ok"
          THEN Begin(r, "approve", id, Empty, "done", Empty, outcome)
          ELSE LET set == [status |-> "APPROVED", approvedBy |-> user,
                           approvalDate |-> Now, approvalNotes |-> approvalNotes]
               IN Begin(r, "approve", id,
                        [paths |-> Modified(store[id], set, {"approvalDate"}),
                         seen |-> store[id]["status"], user |-> user,
                         approvalNotes |-> approvalNotes],
                        "save", Spread(store[id], set), "none")
     /\ UNCHANGED <<store, cache, nextTemp, nextId, mails>>
  \/ Decide(r, "approve", "approved", "Approved")

Reasons == {Undefined, "", "incomplete"}

\* the rejection checks with findById before the reason check
RejectCheck_LookupFirst(s, id, body) ==
  IF id \notin DOMAIN s THEN "NotFound"
  ELSE IF ~Truthy(body, "rejectionReason") THEN "MissingReason"
  ELSE IF s[id]["status"] = "REJECTED" THEN "AlreadyRejected"
  ELSE IF s[id]["status"] = "APPROVED" THEN "InvalidTransition"
  ELSE "ok"

\* the rejection checks without the already-rejected return
RejectCheck_RejectsAgain(s, id, body) ==
  IF ~Truthy(body, "rejectionReason") THEN "MissingReason"
  ELSE IF id \notin DOMAIN s THEN "NotFound"
  ELSE IF s[id]["status"] = "APPROVED" THEN "InvalidTransition"
  ELSE "ok"

\* the checks before the rejection: the reason first, then findById
RejectCheck(s, id, body) ==
  IF ~Truthy(body, "rejectionReason") THEN "MissingReason"
  ELSE IF id \notin DOMAIN s THEN "NotFound"
  ELSE IF s[id]["status"] = "REJECTED" THEN "AlreadyRejected"
  ELSE IF s[id]["status"] = "APPROVED" THEN "InvalidTransition"
  ELSE "ok"

rejectEntity(r) ==
  \/ /\ \E id \in EntityIds, user \in Users, rejectionReason \in Reasons :
          LET body == [rejectionReason |-> rejectionReason]
              outcome == RejectCheck(store, id, body)
          IN
          IF outcome # "ok"
          THEN Begin(r, "reject", id, body, "done", Empty, outcome)
          ELSE LET set == [status |-> "REJECTED", rejectedBy |-> user,
                           rejectionDate |-> Now, rejectionReason |-> rejectionReason]
               IN Begin(r, "reject", id,
                        [paths |-> Modified(store[id], set, {"rejectionDate"}),
                         seen |-> store[id]["status"], rejectionReason |-> rejectionReason],
                        "save", Spread(store[id], set), "none")
     /\ UNCHANGED <<store, cache, nextTemp, nextId, mails>>
  \/ Decide(r, "reject", "rejected", "Rejected")

(* --------------------------- file controller --------------------------- *)
UploadedPhotos == {Undefined, "photoNew"}
UploadedFiles == {<<>>, <<"docNew">>}
Filenames == {"photoNew", "docNew"}

InSeq(x, q) == \E i \in 1..Len(q) : q[i] = x

uploadProfilePhoto(r) ==
  /\ \E entityId \in EntityIds, file \in UploadedPhotos :
       IF file = Undefined
       THEN /\ Begin(r, "uploadPhoto", entityId, Empty, "done", Empty, "NoFile")
            /\ store' = store
       ELSE IF entityId \notin DOMAIN store
       THEN /\ Begin(r, "uploadPhoto", entityId, Empty, "done", Empty, "NotFound")
            /\ store' = store
       ELSE /\ store' = save(store, entityId, [profilePhoto |-> file], {"profilePhoto"})
            /\ Begin(r, "uploadPhoto", entityId, Empty, "done", Empty, "Uploaded")
  /\ UNCHANGED <<cache, nextTemp, nextId, mails>>

uploadDocuments(r) ==
  /\ \E entityId \in EntityIds, files \in UploadedFiles :
       IF files = <<>>
       THEN /\ Begin(r, "uploadDocs", entityId, Empty, "done", Empty, "NoFile")
            /\ store' = store
       ELSE IF entityId \notin DOMAIN store
       THEN /\ Begin(r, "uploadDocs", entityId, Empty, "done", Empty, "NotFound")
            /\ store' = store
       ELSE /\ Len(store[entityId]["documents"]) < MaxDocs
            /\ store' = save(store, entityId,
                             [documents |-> store[entityId]["documents"] \o files], {"documents"})
            /\ Begin(r, "uploadDocs", entityId, Empty, "done", Empty, "Uploaded")
  /\ UNCHANGED <<cache, nextTemp, nextId, mails>>

deleteFile(r) ==
  /\ \E entityId \in EntityIds, filename \in Filenames :
       IF entityId \notin DOMAIN store
       THEN /\ Begin(r, "deleteFile", entityId, Empty, "done", Empty, "NotFound")
            /\ store' = store
       ELSE IF Get(store[entityId], "profilePhoto") = filename
       THEN /\ store' = save(store, entityId, [profilePhoto |-> Undefined], {"profilePhoto"})
            /\ Begin(r, "deleteFile", entityId, Empty, "done", Empty, "FileDeleted")
       ELSE IF InSeq(filename, store[entityId]["documents"])
       THEN /\ store' = save(store, entityId,
                             [documents |-> SelectSeq(store[entityId]["documents"],
                                                      LAMBDA d : d # filename)],
                             {"documents"})
            /\ Begin(r, "deleteFile", entityId, Empty, "done", Empty, "FileDeleted")
       ELSE /\ Begin(r, "deleteFile", entityId, Empty, "done", Empty, "FileNotFound")
            /\ store' = store
  /\ UNCHANGED <<cache, nextTemp, nextId, mails>>

(* ----------------------------- entity list ----------------------------- *)
\* the JSON null of prevPage and nextPage
NullPage == 0

\* sortBy: createdAt follows the order of insertion, status sorts as a string
SortFields == {"createdAt", "status"}

SortOrders == {"asc", "desc"}

StatusRank == [APPROVED |-> 1, PENDING |-> 2, REJECTED |-> 3, UNDER_REVIEW |-> 4]

SortKey(doc, sortBy) == IF sortBy = "status" THEN StatusRank[doc["status"]] ELSE doc["_id"]

\* the fields the $or of the search looks in; a term of Searches matches a
\* field of the input domain exactly when it is that field's value
SearchKeys == {"name", "email", "identificationNumber", "inquiryId"}

Searches == {Undefined, "ID1"}

StatusFilters == {Undefined, "APPROVED"}

\* const filter: status if given, $or of the regexes if search is given
Matches(doc, query) ==
  /\ Truthy(query, "status") => doc["status"] = query["status"]
  /\ Truthy(query, "search") => \E k \in SearchKeys : Get(doc, k) = query["search"]

Filtered(s, query) == {id \in DOMAIN s : Matches(s[id], query)}

\* .sort({ [sortBy]: sortDirection }): every order of the matching documents
\* that respects the sort key; documents with equal keys come in any order
SortedOrders(s, ids, sortBy, sortOrder) ==
  {q \in [1..Cardinality(ids) -> ids] :
     /\ \A i, j \in DOMAIN q : i # j => q[i] # q[j]
     /\ \A i, j \in DOMAIN q :
          i < j => IF sortOrder = "desc"
                   THEN SortKey(s[q[i]], sortBy) >= SortKey(s[q[j]], sortBy)
                   ELSE SortKey(s[q[i]], sortBy) <= SortKey(s[q[j]], sortBy)}

\* Math.ceil(a / b)
Ceil(a, b) == (a + b - 1) \div b

\* hasNextPage for every page up to and including the last
Pagination_NextOnLastPage(totalDocs, page, limit) ==
  LET totalPages == Ceil(totalDocs, limit) IN
  [totalDocs |-> totalDocs, limit |-> limit, totalPages |-> totalPages, page |-> page,
   hasPrevPage |-> page > 1, hasNextPage |-> page <= totalPages,
   prevPage |-> IF page > 1 THEN page - 1 ELSE NullPage,
   nextPage |-> IF page <= totalPages THEN page + 1 ELSE NullPage]

\* the pagination info of EntityService.getEntities
Pagination(totalDocs, page, limit) ==
  LET totalPages == Ceil(totalDocs, limit)
      hasPrevPage == page > 1
      hasNextPage == page < totalPages
  IN [totalDocs |-> totalDocs, limit |-> limit, totalPages |-> totalPages, page |-> page,
      hasPrevPage |-> hasPrevPage, hasNextPage |-> hasNextPage,
      prevPage |-> IF hasPrevPage THEN page - 1 ELSE NullPage,
      nextPage |-> IF hasNextPage THEN page + 1 ELSE NullPage]

\* .skip(skip).limit(limit) on one order of the matching documents
PageOf(order, page, limit) ==
  LET skip == (page - 1) * limit
      last == IF skip + limit < Len(order) THEN skip + limit ELSE Len(order)
  IN SubSeq(order, skip + 1, last)

ListQueries ==
  [page : 1..MaxPage, limit : 1..MaxLimit, status : StatusFilters, search : Searches,
   sortBy : SortFields, sortOrder : SortOrders]

\* GET /api/entities: the entities of the response are given by their _id
getEntities(r) ==
  /\ \E query \in ListQueries :
       \E order \in SortedOrders(store, Filtered(store, query), query.sortBy, query.sortOrder) :
         Begin(r, "list", 0, query, "done",
               [entities |-> PageOf(order, query.page, query.limit),
                pagination |-> Pagination(Cardinality(Filtered(store, query)),
                                          query.page, query.limit)],
               "Listed")
  /\ UNCHANGED <<store, cache, nextTemp, nextId, mails>>

(* ---------------------------- entity stats ----------------------------- *)
\* the count of one $group bucket of Entity.aggregate, 0 for a missing bucket
StatusCount(s, status) == Cardinality({id \in DOMAIN s : s[id]["status"] = status})

\* GET /api/entities/stats: Entity.aggregate, then Entity.countDocuments
getEntityStats(r) ==
  \/ /\ Begin(r, "stats", 0, Empty, "count",
              [pending |-> StatusCount(store, "PENDING"),
               approved |-> StatusCount(store, "APPROVED"),
               rejected |-> StatusCount(store, "REJECTED"),
               underReview |-> StatusCount(store, "UNDER_REVIEW")],
              "none")
     /\ UNCHANGED <<store, cache, nextTemp, nextId, mails>>
  \/ /\ reqs[r].op = "stats"
     /\ reqs[r].pc = "count"
     /\ Finish(r, Spread([total |-> Cardinality(DOMAIN store)], reqs[r].snap), "Stats")
     /\ UNCHANGED <<store, cache, nextTemp, nextId, calls, mails>>

(* --------------------------- specifications ---------------------------- *)
WizardBodies ==
  {[name |-> "Jane", identificationNumber |-> "ID1", email |-> "jane@x.com",
    address |-> AddrA, inquiryId |-> "INQ1"]}

ApprovalUpdates == {[name |-> "Joe"], [status |-> "UNDER_REVIEW"]}

NextApproval ==
  \E r \in Slots :
    \/ createEntity(r, WizardBodies) /\ calls' <= MaxApprovalCalls
    \/ updateEntity(r, ApprovalUpdates) /\ calls' <= MaxApprovalCalls
    \/ approveEntity(r) /\ calls' <= MaxApprovalCalls
    \/ rejectEntity(r) /\ calls' <= MaxApprovalCalls

SpecApproval == Init /\ [][NextApproval]_vars

\* the approval workflow with the file endpoints, one request at a time
NextFiles ==
  \E r \in {1} :
       \/ createEntity(r, WizardBodies)
       \/ updateEntity(r, ApprovalUpdates)
       \/ approveEntity(r)
       \/ rejectEntity(r)
       \/ uploadProfilePhoto(r)
       \/ uploadDocuments(r)
       \/ deleteFile(r)
       \/ deleteEntity(r)

SpecFiles == Init /\ [][NextFiles]_vars

UniqueUpdates == {[identificationNumber |-> "ID2"], [inquiryId |-> "INQ2"]}

\* the operations that write identificationNumber and inquiryId
NextUnique ==
  \E r \in Slots :
    \/ createEntityStep1(r, MaxSessions) /\ calls' <= MaxUniqueCalls
    \/ createEntityStep6(r) /\ calls' <= MaxUniqueCalls
    \/ createEntity(r, CreateBodies) /\ calls' <= MaxUniqueCalls
    \/ updateEntity(r, UniqueUpdates) /\ calls' <= MaxUniqueCalls

SpecUnique == Init /\ [][NextUnique]_vars

\* the wizard as one client drives it, with a budget of MaxSessionCalls requests
NextSession ==
  \/ \E r \in {1} :
       \/ createEntityStep1(r, MaxTemp) /\ calls' <= MaxSessionCalls
       \/ createEntityStep2(r) /\ calls' <= MaxSessionCalls
       \/ createEntityStep3(r) /\ calls' <= MaxSessionCalls
       \/ createEntityStep4(r) /\ calls' <= MaxSessionCalls
       \/ createEntityStep5(r) /\ calls' <= MaxSessionCalls
       \/ createEntityStep6(r) /\ calls' <= MaxSessionCalls
       \/ getEntityProgress(r) /\ calls' <= MaxSessionCalls
       \/ cancelEntityCreation(r) /\ calls' <= MaxSessionCalls
       \/ createEntity(r, WizardBodies) /\ calls' <= MaxSessionCalls
  \/ Tick

SpecSession == Init /\ [][NextSession]_vars

\* step and cancel calls on one tempId that may overlap
NextRace ==
  \E r \in Slots :
    \/ createEntityStep1(r, MaxTemp) /\ calls' <= MaxRaceCalls
    \/ createEntityStep2(r) /\ calls' <= MaxRaceCalls
    \/ createEntityStep3(r) /\ calls' <= MaxRaceCalls
    \/ cancelEntityCreation(r) /\ calls' <= MaxRaceCalls

SpecRace == Init /\ [][NextRace]_vars

\* steps 1 to 3 arrive one at a time, stepFinalize calls may overlap and be
\* retried
NextFinalize ==
  \/ \E r \in {1} :
       \/ createEntityStep1(r, MaxTemp) /\ calls' <= MaxFinalizeCalls
       \/ createEntityStep2(r) /\ calls' <= MaxFinalizeCalls
       \/ createEntityStep3(r) /\ calls' <= MaxFinalizeCalls
  \/ \E r \in Slots :
       createEntityStep6(r) /\ calls' <= MaxFinalizeCalls

SpecFinalize == Init /\ [][NextFinalize]_vars

ListBodies ==
  {[name |-> "Jane", identificationNumber |-> i, email |-> "jane@x.com",
    address |-> AddrA, inquiryId |-> i] : i \in IdNums}

\* the statistics next to calls that insert, decide and delete entities
NextStats ==
  \E r \in Slots :
    \/ createEntity(r, ListBodies) /\ calls' <= MaxStatsCalls
    \/ approveEntity(r) /\ calls' <= MaxStatsCalls
    \/ deleteEntity(r) /\ calls' <= MaxStatsCalls
    \/ getEntityStats(r) /\ calls' <= MaxStatsCalls

SpecStats == Init /\ [][NextStats]_vars

\* every operation that writes the cache, one request at a time
NextWrites ==
  \E r \in {1} :
    \/ createEntityStep1(r, MaxTemp) /\ calls' <= MaxWriteCalls
    \/ createEntityStep2(r) /\ calls' <= MaxWriteCalls
    \/ createEntityStep3(r) /\ calls' <= MaxWriteCalls
    \/ createEntityStep4(r) /\ calls' <= MaxWriteCalls
    \/ createEntityStep5(r) /\ calls' <= MaxWriteCalls
    \/ createEntityStep6(r) /\ calls' <= MaxWriteCalls
    \/ createEntity(r, WizardBodies) /\ calls' <= MaxWriteCalls
    \/ updateEntity(r, ApprovalUpdates) /\ calls' <= MaxWriteCalls
    \/ approveEntity(r) /\ calls' <= MaxWriteCalls
    \/ rejectEntity(r) /\ calls' <= MaxWriteCalls

SpecWrites == Init /\ [][NextWrites]_vars

AddrPartial == [street |-> "1 Main St", city |-> "Pune"]

\* create payloads: complete, with a status of the client's, without email,
\* with an address that lacks subfields
LooseBodies ==
  LET full == [name |-> "Jane", identificationNumber |-> "ID1", inquiryId |-> "INQ1",
               email |-> "jane@x.com", address |-> AddrA]
  IN {full,
      Spread(full, [status |-> "APPROVED"]),
      Omit(full, {"email"}),
      Spread(full, [address |-> AddrPartial])}

LooseUpdates ==
  {[email |-> ""], [address |-> AddrPartial], [status |-> "UNDER_REVIEW"],
   [status |-> "APPROVED"]}

Step2Loose ==
  {[email |-> "jane@x.com", phone |-> "555-0100", dateOfBirth |-> "1990-01-01"],
   [email |-> "jane@x.com", phone |-> "555-0100", dateOfBirth |-> "1990-01-01",
    status |-> "APPROVED", inquiryId |-> "INQ1"]}

Step3Loose == {[address |-> AddrA], [address |-> AddrA, status |-> "APPROVED"]}

\* the two ways to a durable entity under clients that send what they like,
\* in any order
NextRequired ==
  \E r \in {1} :
    \/ createEntityStep1(r, MaxTemp) /\ calls' <= MaxRequiredCalls
    \/ LooseStep(r, "step2", Step2Loose) /\ calls' <= MaxRequiredCalls
    \/ LooseStep(r, "step3", Step3Loose) /\ calls' <= MaxRequiredCalls
    \/ createEntityStep6(r) /\ calls' <= MaxRequiredCalls
    \/ createEntity(r, LooseBodies) /\ calls' <= MaxRequiredCalls
    \/ updateEntity(r, LooseUpdates) /\ calls' <= MaxRequiredCalls

SpecRequired == Init /\ [][NextRequired]_vars

\* reads and deletes next to the operations that write the cache mirror
NextRead ==
  \/ \E r \in {1} :
       \/ createEntity(r, WizardBodies) /\ calls' <= MaxReadCalls
       \/ updateEntity(r, ApprovalUpdates) /\ calls' <= MaxReadCalls
       \/ approveEntity(r) /\ calls' <= MaxReadCalls
       \/ rejectEntity(r) /\ calls' <= MaxReadCalls
       \/ deleteEntity(r) /\ calls' <= MaxReadCalls
       \/ getEntity(r) /\ calls' <= MaxReadCalls
       \/ uploadProfilePhoto(r) /\ calls' <= MaxReadCalls
  \/ Tick

SpecRead == Init /\ [][NextRead]_vars

\* the entity list over a store that creations fill
NextList ==
  \E r \in {1} :
    \/ createEntity(r, ListBodies) /\ calls' <= MaxListCalls
    \/ getEntities(r) /\ calls' <= MaxListCalls

SpecList == Init /\ [][NextList]_vars

Next ==
  \/ \E r \in {1} :
       \/ createEntityStep1(r, MaxTemp)
       \/ createEntityStep2(r)
       \/ createEntityStep3(r)
       \/ createEntityStep4(r)
       \/ createEntityStep5(r)
       \/ createEntityStep6(r)
       \/ getEntityProgress(r)
       \/ cancelEntityCreation(r)
       \/ createEntity(r, WizardBodies)
  \/ Tick

Spec == Init /\ [][Next]_vars

(* ------------------------------ properties ----------------------------- *)
Terminal == {"APPROVED", "REJECTED"}

InOrder == <<"basic_info", "contact_info", "address_info", "profile_photo", "documents">>

UnionKeys ==
  {"name", "identificationNumber", "email", "phone", "dateOfBirth", "address",
   "profilePhoto", "documents", "additionalData"}

Pick(o, ks) == [k \in DOMAIN o \cap ks |-> o[k]]

\* C1: when stepFinalize runs on a record that steps 1 to 5 filled in that order,
\* it returns a durable entity whose fields are the union of the step inputs,
\* without step and completedSteps, and the in-progress record is gone.
C1_FinalizeYieldsUnion ==
  [][\A r \in Slots :
       (/\ reqs[r].op = "step6"
        /\ reqs[r].pc = "create"
        /\ reqs'[r].pc = "done"
        /\ reqs[r].snap["completedSteps"] = InOrder)
       => /\ reqs'[r].res = "Created"
          /\ Pick(reqs'[r].snap, UnionKeys)
               = Pick(JSONRoundTrip(finalEntityData(reqs[r].snap, reqs[r].arg)), UnionKeys)
          /\ DOMAIN reqs'[r].snap \cap {"step", "completedSteps"} = {}
          /\ TempKey(reqs[r].id) \notin DOMAIN cache']_vars

WizardReadOps == {"step2", "step3", "step4", "step5", "step6", "progress"}

\* C2: a step 2..6 or progress call on a tempId that has no in-progress record in
\* the cache returns SessionExpired and changes neither the cache nor the store.
C2_NoRecordIsSessionExpired ==
  [][\A r \in Slots :
       (/\ Began(r)
        /\ reqs'[r].op \in WizardReadOps
        /\ TempKey(reqs'[r].id) \notin DOMAIN cache)
       => /\ reqs'[r].pc = "done"
          /\ reqs'[r].res = "SessionExpired"
          /\ store' = store
          /\ cache' = cache]_vars

\* a finalize call answered SessionExpired for a tempId that was handed out and
\* whose record is gone (cancelled or expired)
C2_Witness ==
  \E r \in Slots :
    /\ reqs[r].op = "step6"
    /\ reqs[r].res = "SessionExpired"
    /\ reqs[r].id < nextTemp
    /\ TempKey(reqs[r].id) \notin DOMAIN cache

\* C3: stepBegin with the identificationNumber of an existing durable entity
\* returns DuplicateIdentifier, hands out no tempId and writes nothing to the cache.
C3_DuplicateAtBegin ==
  [][\A r \in Slots :
       (/\ Began(r)
        /\ reqs'[r].op = "step1"
        /\ \E id \in DOMAIN store :
             store[id]["identificationNumber"] = reqs'[r].arg["identificationNumber"])
       => /\ reqs'[r].res = "DuplicateIdentifier"
          /\ nextTemp' = nextTemp
          /\ cache' = cache
          /\ store' = store]_vars

C3_Witness ==
  \E r \in Slots :
    /\ reqs[r].op = "step1"
    /\ reqs[r].res = "DuplicateIdentifier"
    /\ \E id \in DOMAIN store :
         store[id]["identificationNumber"] = reqs[r].arg["identificationNumber"]

\* the response the claim C4 gives for a decision on a decided entity
Refusal(op, status) ==
  CASE op = "approve" /\ status = "APPROVED" -> "AlreadyApproved"
    [] op = "approve" /\ status = "REJECTED" -> "InvalidTransition"
    [] op = "reject" /\ status = "REJECTED" -> "AlreadyRejected"
    [] op = "reject" /\ status = "APPROVED" -> "InvalidTransition"
    [] OTHER -> "none"

\* C4: an approve or a reject (with a reason) that reads an entity whose stored
\* status is APPROVED or REJECTED returns AlreadyApproved, AlreadyRejected or
\* InvalidTransition as the pair of decisions demands, and changes nothing.
C4_SecondDecisionRefused ==
  [][\A r \in Slots :
       (/\ Began(r)
        /\ reqs'[r].op \in {"approve", "reject"}
        /\ reqs'[r].op = "reject" => Truthy(reqs'[r].arg, "rejectionReason")
        /\ reqs'[r].id \in DOMAIN store
        /\ store[reqs'[r].id]["status"] \in Terminal)
       => /\ reqs'[r].res = Refusal(reqs'[r].op, store[reqs'[r].id]["status"])
          /\ reqs'[r].pc = "done"
          /\ store' = store
          /\ cache' = cache
          /\ mails' = mails]_vars

\* a reject with a reason refused on an entity whose approval was notified
C4_Witness ==
  \E r \in Slots :
    /\ reqs[r].op = "reject"
    /\ reqs[r].res = "InvalidTransition"
    /\ Truthy(reqs[r].arg, "rejectionReason")
    /\ reqs[r].id \in DOMAIN store
    /\ store[reqs[r].id]["status"] = "APPROVED"
    /\ mails # <<>>

\* C5 as stated: once the store holds APPROVED or REJECTED for an entity, its
\* status never changes again, under every interleaving.
C5_TerminalStatusNeverChanges ==
  [][\A id \in DOMAIN store \cap DOMAIN store' :
       store[id]["status"] \in Terminal => store'[id]["status"] = store[id]["status"]]_vars

Writers == {"approve", "reject", "update"}

\* C5 amended: the status of an entity that is APPROVED or REJECTED in the store
\* is changed only by the write of a call that had read the entity while it was
\* PENDING or UNDER_REVIEW; a call that reads the decided status never changes it.
C5_OnlyStaleReadersOverwrite ==
  [][\A id \in DOMAIN store \cap DOMAIN store' :
       (store[id]["status"] \in Terminal /\ store'[id]["status"] # store[id]["status"])
       => \E r \in Slots :
            /\ reqs[r].op \in Writers
            /\ reqs[r].id = id
            /\ reqs[r].pc \in {"save", "update"}
            /\ reqs'[r].pc # reqs[r].pc
            /\ reqs[r].arg["seen"] \in Editable]_vars

\* an entity that was approved and whose status a call in flight then overwrote
C5_Witness ==
  \E id \in DOMAIN store :
    /\ store[id]["status"] = "REJECTED"
    /\ "approvalDate" \in DOMAIN store[id]
    /\ "rejectionDate" \in DOMAIN store[id]

\* C6: once an entity is APPROVED or REJECTED, no operation other than delete
\* changes any of its fields, the file endpoints included.
C6_DecidedEntityFrozen ==
  [][\A id \in DOMAIN store \cap DOMAIN store' :
       store[id]["status"] \in Terminal => store'[id] = store[id]]_vars

\* C7: entityUpdate that reads an APPROVED or REJECTED entity returns InvalidState
\* and leaves the durable record and the cache unchanged; on a PENDING or
\* UNDER_REVIEW entity it is accepted and goes on to the update.
C7_UpdateGate ==
  [][\A r \in Slots :
       (Began(r) /\ reqs'[r].op = "update" /\ reqs'[r].id \in DOMAIN store)
       => /\ store' = store
          /\ cache' = cache
          /\ IF store[reqs'[r].id]["status"] \in Terminal
             THEN reqs'[r].pc = "done" /\ reqs'[r].res = "InvalidState"
             ELSE reqs'[r].pc = "update" /\ reqs'[r].res = "none"]_vars

\* an update refused on an entity that is rejected in the store and in the cache
C7_Witness ==
  \E r \in Slots :
    /\ reqs[r].op = "update"
    /\ reqs[r].res = "InvalidState"
    /\ reqs[r].id \in DOMAIN store
    /\ store[reqs[r].id]["status"] = "REJECTED"
    /\ EntityKey(reqs[r].id) \in DOMAIN cache
    /\ cache[EntityKey(reqs[r].id)].value["status"] = "REJECTED"

\* C8: entityReject without a rejectionReason (absent or empty) returns
\* MissingReason for every id and changes neither store nor cache, and no
\* notification is attempted.
C8_MissingReason ==
  [][\A r \in Slots :
       (Began(r) /\ reqs'[r].op = "reject" /\ ~Truthy(reqs'[r].arg, "rejectionReason"))
       => /\ reqs'[r].res = "MissingReason"
          /\ reqs'[r].pc = "done"
          /\ store' = store
          /\ cache' = cache
          /\ mails' = mails]_vars

\* MissingReason answered for an id that is not in the store
C8_Witness ==
  \E r \in Slots :
    /\ reqs[r].op = "reject"
    /\ reqs[r].res = "MissingReason"
    /\ reqs[r].arg["rejectionReason"] = ""
    /\ reqs[r].id \notin DOMAIN store
    /\ store # Empty

\* C9: when the notification of an approve or reject fails, the call still
\* responds with success and neither the store nor the cache is touched.
C9_NotificationFailureKeepsDecision ==
  [][\A r \in Slots :
       (/\ reqs[r].pc = "mail"
        /\ reqs'[r].pc = "done"
        /\ Len(mails') = Len(mails) + 1
        /\ ~mails'[Len(mails')].sent)
       => /\ reqs'[r].res = IF reqs[r].op = "approve" THEN "Approved" ELSE "Rejected"
          /\ store' = store
          /\ cache' = cache]_vars

\* an approve answered with success although its notification failed, with the
\* approval in the store and in the cache mirror
C9_Witness ==
  \E r \in Slots :
    /\ reqs[r].op = "approve"
    /\ reqs[r].res = "Approved"
    /\ mails # <<>>
    /\ ~mails[Len(mails)].sent
    /\ mails[Len(mails)].id = reqs[r].id
    /\ reqs[r].id \in DOMAIN store
    /\ store[reqs[r].id]["status"] = "APPROVED"
    /\ EntityKey(reqs[r].id) \in DOMAIN cache
    /\ cache[EntityKey(reqs[r].id)].value["status"] = "APPROVED"

\* C10: no two durable entities share identificationNumber or inquiryId.
C10_UniqueIdentifiers ==
  \A a, b \in DOMAIN store :
    a # b => /\ store[a]["identificationNumber"] # store[b]["identificationNumber"]
             /\ store[a]["inquiryId"] # store[b]["inquiryId"]

\* two durable entities next to a write that the unique indexes refused
C10_Witness ==
  /\ Cardinality(DOMAIN store) = 2
  /\ \E r \in Slots : reqs[r].res = "DuplicateKey"
\* C14: stepCancel succeeds whether or not the in-progress record exists: the
\* record is absent afterwards, every other cache entry and the durable store
\* are untouched, and on a tempId without a record (a second cancel) the cache
\* is left as it was.  Only a delete that the cache itself refuses fails, with
\* StorageFailure and nothing changed.
C14_CancelIdempotent ==
  [][\A r \in Slots :
       (Began(r) /\ reqs'[r].op = "cancel")
       => /\ store' = store
          /\ reqs'[r].pc = "done"
          /\ IF reqs'[r].res = "Cancelled"
             THEN /\ DOMAIN cache' = DOMAIN cache \ {TempKey(reqs'[r].id)}
                  /\ \A k \in DOMAIN cache' : cache'[k] = cache[k]
                  /\ TempKey(reqs'[r].id) \notin DOMAIN cache => cache' = cache
             ELSE reqs'[r].res = "StorageFailure" /\ cache' = cache]_vars

\* a cancel that succeeded on a tempId that had been handed out, the record gone
C14_Witness ==
  \E r \in Slots :
    /\ reqs[r].op = "cancel"
    /\ reqs[r].res = "Cancelled"
    /\ reqs[r].id < nextTemp
    /\ TempKey(reqs[r].id) \notin DOMAIN cache
    /\ calls >= 3

\* C17: stepProgress on an existing record returns the record's step as
\* currentStep, totalSteps 6, the record's completedSteps, the percentage
\* round(100 * length(completedSteps) / 6), nextStep = currentStep + 1 below 6 and
\* null at 6, and the record's data without step and completedSteps; the record
\* and its expiry stay as they were.
C17_ProgressReport ==
  [][/\ \A r \in Slots :
          (/\ Began(r)
           /\ reqs'[r].op = "progress"
           /\ TempKey(reqs'[r].id) \in DOMAIN cache)
          => LET rec == cache[TempKey(reqs'[r].id)].value
                 out == reqs'[r].snap
             IN /\ cache' = cache
                /\ store' = store
                /\ reqs'[r].res \in {"Progress", "SessionExpired"}
                /\ reqs'[r].res = "Progress"
                   => /\ out.currentStep = rec["step"]
                      /\ out.totalSteps = 6
                      /\ out.completedSteps = rec["completedSteps"]
                      /\ 6 * out.progress - 100 * Len(rec["completedSteps"]) \in -2..3
                      /\ out.nextStep = IF rec["step"] < 6 THEN rec["step"] + 1 ELSE NullStep
                      /\ out.entityData = [k \in DOMAIN rec \ {"step", "completedSteps"} |-> rec[k]]
     /\ \A n \in 1..6 :
          ProgressInfo([step |-> n, completedSteps |-> <<>>]).nextStep
            = IF n = 6 THEN NullStep ELSE n + 1]_vars

\* a progress report on a record that two steps filled: step 2, 33 per cent
C17_Witness ==
  \E r \in Slots :
    /\ reqs[r].op = "progress"
    /\ reqs[r].res = "Progress"
    /\ reqs[r].snap.currentStep = 2
    /\ reqs[r].snap.progress = 33
    /\ reqs[r].snap.nextStep = 3
    /\ TempKey(reqs[r].id) \in DOMAIN cache
\* the rest of a list query once its page is set aside
SamePaging(q1, q2) ==
  /\ q1.limit = q2.limit
  /\ q1.status = q2.status
  /\ q1.search = q2.search
  /\ q1.sortBy = q2.sortBy
  /\ q1.sortOrder = q2.sortOrder

\* C15: with the store unchanged, two pages of the same filter, sort and limit
\* never hold the same entity (the pages partition the sorted result set).
C15_PagesPartition ==
  [][\A r \in Slots :
       (/\ Began(r)
        /\ reqs'[r].op = "list"
        /\ reqs[r].op = "list"
        /\ SamePaging(reqs[r].arg, reqs'[r].arg)
        /\ reqs[r].arg.page # reqs'[r].arg.page)
       => \A i \in DOMAIN reqs[r].snap.entities, j \in DOMAIN reqs'[r].snap.entities :
            reqs[r].snap.entities[i] # reqs'[r].snap.entities[j]]_vars

\* C16 as stated: hasNextPage is false iff page = totalPages or totalPages = 0.
C16_NoNextOnlyOnLastPage ==
  [][\A r \in Slots :
       (Began(r) /\ reqs'[r].op = "list")
       => LET p == reqs'[r].snap.pagination
          IN ~p.hasNextPage <=> (p.page = p.totalPages \/ p.totalPages = 0)]_vars

\* C16 amended: hasNextPage is false iff page >= totalPages (the last page, any
\* page past it, or an empty result); nextPage is null exactly when hasNextPage
\* is false and page + 1 otherwise, prevPage is null exactly when hasPrevPage is
\* false and page - 1 otherwise; totalPages is ceil(totalDocs / limit).
C16_PaginationInfo ==
  [][\A r \in Slots :
       (Began(r) /\ reqs'[r].op = "list")
       => LET p == reqs'[r].snap.pagination
              q == reqs'[r].arg
          IN /\ p.page = q.page /\ p.limit = q.limit
             /\ p.totalDocs = Cardinality({id \in DOMAIN store : Matches(store[id], q)})
             /\ p.totalPages * p.limit >= p.totalDocs
             /\ (p.totalPages - 1) * p.limit < p.totalDocs \/ p.totalPages = 0
             /\ ~p.hasNextPage <=> p.page >= p.totalPages
             /\ p.hasPrevPage <=> p.page > 1
             /\ p.nextPage = NullPage <=> ~p.hasNextPage
             /\ p.prevPage = NullPage <=> ~p.hasPrevPage
             /\ p.hasNextPage => p.nextPage = p.page + 1
             /\ p.hasPrevPage => p.prevPage = p.page - 1]_vars

\* a list response for a page past the last page of a result that is not empty
C16_Witness ==
  \E r \in Slots :
    /\ reqs[r].op = "list"
    /\ reqs[r].res = "Listed"
    /\ reqs[r].snap.pagination.totalPages >= 1
    /\ reqs[r].snap.pagination.page > reqs[r].snap.pagination.totalPages
    /\ ~reqs[r].snap.pagination.hasNextPage
    /\ reqs[r].snap.pagination.nextPage = NullPage
    /\ reqs[r].snap.pagination.prevPage = reqs[r].snap.pagination.page - 1

\* the fields of a document other than the references to users
OwnFields(doc) == [k \in DOMAIN doc \ RefKeys |-> doc[k]]

\* C11: an entityGet answered from the cache mirror of an entity that is in
\* the durable store returns the data a read of the store returns at that
\* moment (the references to users left aside, which only a store read
\* expands).
C11_CacheMatchesStore ==
  [][\A r \in Slots :
       (/\ Began(r)
        /\ reqs'[r].op = "get"
        /\ reqs'[r].res = "Found"
        /\ reqs'[r].id \in DOMAIN store)
       => OwnFields(reqs'[r].snap)
            = OwnFields(JSONRoundTrip(toJSON(store[reqs'[r].id])))]_vars

\* C12: entityGet(id) answers from the cache entry entity:<id> when the
\* cache returns it, without a store read or a cache write; otherwise it reads
\* the store: an absent entity gives NotFound and no cache write, a stored
\* one is returned with its user references expanded and, when the cache
\* accepts the write, entity:<id> then holds that response with a TTL of
\* 1800 seconds (a refused write gives StorageFailure and no cache change).
C12_ReadThrough ==
  [][\A r \in Slots :
       LET key == EntityKey(reqs'[r].id) IN
       /\ (Began(r) /\ reqs'[r].op = "get")
          => /\ store' = store
             /\ cache' = cache
             /\ IF key \in DOMAIN cache /\ reqs'[r].arg["cacheUp"]
                THEN /\ reqs'[r].pc = "done"
                     /\ reqs'[r].res = "Found"
                     /\ reqs'[r].snap = cache[key].value
                ELSE reqs'[r].pc = "find"
       /\ (reqs[r].op = "get" /\ reqs[r].pc = "find" /\ reqs'[r] # reqs[r])
          => /\ store' = store
             /\ cache' = cache
             /\ IF reqs[r].id \in DOMAIN store
                THEN /\ reqs'[r].pc = "cache"
                     /\ OwnFields(reqs'[r].snap) = OwnFields(toJSON(store[reqs[r].id]))
                     /\ \A k \in RefKeys \cap DOMAIN store[reqs[r].id] :
                          reqs'[r].snap[k] = UserDocs[store[reqs[r].id][k]]
                ELSE reqs'[r].pc = "done" /\ reqs'[r].res = "NotFound"
       /\ (reqs[r].op = "get" /\ reqs[r].pc = "cache" /\ reqs'[r] # reqs[r])
          => /\ store' = store
             /\ reqs'[r].pc = "done"
             /\ IF reqs'[r].res = "Found"
                THEN /\ reqs'[r].snap = reqs[r].snap
                     /\ DOMAIN cache' = DOMAIN cache \cup {key}
                     /\ cache'[key] = [value |-> JSONRoundTrip(reqs[r].snap), ttl |-> TTL]
                     /\ \A k \in DOMAIN cache : k # key => cache'[k] = cache[k]
                ELSE reqs'[r].res = "StorageFailure" /\ cache' = cache]_vars

\* a get answered from the store after the mirror expired: the mirror is back
\* with the full TTL and the expanded creator
C12_Witness ==
  \E r \in Slots :
    /\ reqs[r].op = "get"
    /\ reqs[r].pc = "done"
    /\ reqs[r].res = "Found"
    /\ reqs[r].snap["createdBy"] = UserDocs["u1"]
    /\ EntityKey(reqs[r].id) \in DOMAIN cache
    /\ cache[EntityKey(reqs[r].id)] = [value |-> JSONRoundTrip(reqs[r].snap), ttl |-> TTL]

\* C13: entityDelete on an absent id returns NotFound and changes nothing; on
\* a stored entity of any status it removes the document, then evicts
\* entity:<id> and returns Deleted (a refused eviction gives StorageFailure
\* with the document gone and the cache as it was); an entityGet for the same
\* id begun after Deleted finds neither mirror nor document and ends NotFound.
C13_DeleteUnconditional ==
  [][\A r \in Slots :
       LET key == EntityKey(reqs[r].id) IN
       /\ (Began(r) /\ reqs'[r].op = "delete")
          => /\ store' = store
             /\ cache' = cache
             /\ IF reqs'[r].id \in DOMAIN store
                THEN reqs'[r].pc = "delete"
                ELSE reqs'[r].pc = "done" /\ reqs'[r].res = "NotFound"
       /\ (reqs[r].op = "delete" /\ reqs[r].pc = "delete" /\ reqs'[r] # reqs[r])
          => /\ DOMAIN store' = DOMAIN store \ {reqs[r].id}
             /\ \A i \in DOMAIN store' : store'[i] = store[i]
             /\ cache' = cache
             /\ reqs'[r].pc = "uncache"
       /\ (reqs[r].op = "delete" /\ reqs[r].pc = "uncache" /\ reqs'[r] # reqs[r])
          => /\ store' = store
             /\ reqs'[r].pc = "done"
             /\ IF reqs'[r].res = "Deleted"
                THEN /\ DOMAIN cache' = DOMAIN cache \ {key}
                     /\ \A k \in DOMAIN cache' : cache'[k] = cache[k]
                ELSE reqs'[r].res = "StorageFailure" /\ cache' = cache
       /\ (/\ Began(r)
           /\ reqs'[r].op = "get"
           /\ reqs[r].op = "delete"
           /\ reqs[r].res = "Deleted"
           /\ reqs'[r].id = reqs[r].id)
          => reqs'[r].pc = "find" /\ reqs'[r].id \notin DOMAIN store
       /\ (/\ reqs[r].op = "get"
           /\ reqs[r].pc = "find"
           /\ reqs[r].id \notin DOMAIN store
           /\ reqs'[r] # reqs[r])
          => reqs'[r].res = "NotFound" /\ cache' = cache]_vars

\* an approved entity was deleted: a get for it ends NotFound, and neither
\* the store nor the cache holds it
C13_Witness ==
  \E r \in Slots :
    /\ reqs[r].op = "get"
    /\ reqs[r].res = "NotFound"
    /\ reqs[r].id < nextId
    /\ reqs[r].id \notin DOMAIN store
    /\ EntityKey(reqs[r].id) \notin DOMAIN cache
    /\ \E m \in DOMAIN mails : mails[m].kind = "approved"

\* C18: every document inserted into the durable store has status PENDING in
\* the step that inserts it, whatever status the create payload carries; and
\* on the wizard's side every in-progress record keeps status PENDING
\* whatever the step payloads carry, so the data stepFinalize hands to
\* Entity.create has status PENDING with additionalData nested under its own
\* key.
C18_CreatedPending ==
  [][/\ \A id \in DOMAIN store' \ DOMAIN store : store'[id]["status"] = "PENDING"
     /\ \A t \in 1..MaxTemp :
          TempKey(t) \in DOMAIN cache' => cache'[TempKey(t)].value["status"] = "PENDING"
     /\ \A r \in Slots :
          (reqs'[r].op = "step6" /\ reqs'[r].pc = "create")
          => finalEntityData(reqs'[r].snap, reqs'[r].arg)["status"] = "PENDING"]_vars

\* an entity was inserted as PENDING from a create payload that asked for
\* APPROVED, and an in-progress record that took a step payload asking for
\* APPROVED is PENDING as well
C18_Witness ==
  \E r \in Slots :
    /\ reqs[r].op = "create"
    /\ reqs[r].pc = "cache"
    /\ "status" \in DOMAIN reqs[r].arg
    /\ reqs[r].arg["status"] = "APPROVED"
    /\ store[reqs[r].id]["status"] = "PENDING"
    /\ TempKey(1) \in DOMAIN cache
    /\ cache[TempKey(1)].value["step"] = 2
    /\ cache[TempKey(1)].value["status"] = "PENDING"

\* name, identificationNumber, email and the five address subfields are there
Complete(doc) ==
  /\ \A k \in {"name", "identificationNumber", "email"} :
       k \in DOMAIN doc /\ doc[k] # Undefined /\ doc[k] # ""
  /\ "address" \in DOMAIN doc
  /\ \A k \in AddressKeys :
       k \in DOMAIN doc["address"] /\ doc["address"][k] # Undefined /\ doc["address"][k] # ""

\* C19: every document in the durable store has name, identificationNumber,
\* email and an address with street, city, state, country and postalCode;
\* stepFinalize on an in-progress record without email or without address
\* ends in ValidationError with the store and the cache, the in-progress
\* record in it, as they were.
C19_RequiredFields ==
  [][/\ \A id \in DOMAIN store' : Complete(store'[id])
     /\ \A r \in Slots :
          (/\ reqs[r].op = "step6"
           /\ reqs[r].pc = "create"
           /\ reqs'[r] # reqs[r]
           /\ ("email" \notin DOMAIN reqs[r].snap \/ "address" \notin DOMAIN reqs[r].snap))
          => /\ reqs'[r].pc = "done"
             /\ reqs'[r].res = "ValidationError"
             /\ store' = store
             /\ cache' = cache
             /\ TempKey(reqs[r].id) \in DOMAIN cache']_vars

\* stepFinalize was refused for a record that went from step 1 to step 3: the
\* record is still cached without email, and no entity mirror was written
C19_Witness ==
  \E r \in Slots :
    /\ reqs[r].op = "step6"
    /\ reqs[r].res = "ValidationError"
    /\ TempKey(reqs[r].id) \in DOMAIN cache
    /\ "email" \notin DOMAIN cache[TempKey(reqs[r].id)].value
    /\ "address" \in DOMAIN cache[TempKey(reqs[r].id)].value
    /\ EntityKey(1) \notin DOMAIN cache

ApprovalFields == {"status", "approvedBy", "approvalDate", "approvalNotes"}

Written(c, key, value) ==
  /\ key \in DOMAIN c
  /\ c[key] = [value |-> JSONRoundTrip(value), ttl |-> TTL]

\* C21: each cache write of a mutating operation has two outcomes: the entry
\* is written and the operation goes on, or nothing is written and the
\* operation ends at once with StorageFailure; no operation answers with its
\* success response after a cache write that failed.
C21_CacheWriteFailureIsFatal ==
  [][\A r \in Slots :
       /\ (Began(r) /\ reqs'[r].op = "step1" /\ reqs'[r].res # "DuplicateIdentifier")
          => IF reqs'[r].res = "Step1Done"
             THEN /\ TempKey(reqs'[r].id) \in DOMAIN cache'
                  /\ cache'[TempKey(reqs'[r].id)].ttl = TTL
             ELSE reqs'[r].res = "StorageFailure" /\ cache' = cache
       /\ (reqs[r].op \in StepOps /\ reqs[r].pc = "write" /\ reqs'[r] # reqs[r])
          => /\ reqs'[r].pc = "done"
             /\ IF reqs'[r].res = "StepDone"
                THEN Written(cache', TempKey(reqs[r].id),
                             updatedEntityData(reqs[r].op, reqs[r].snap, reqs[r].arg))
                ELSE reqs'[r].res = "StorageFailure" /\ cache' = cache
       /\ (/\ reqs[r].op \in {"create", "update", "approve", "reject"}
           /\ reqs[r].pc = "cache"
           /\ reqs'[r] # reqs[r])
          => IF reqs'[r].pc # "done" \/ reqs'[r].res = "Updated"
             THEN Written(cache', EntityKey(reqs[r].id), toJSON(reqs[r].snap))
             ELSE reqs'[r].res = "StorageFailure" /\ cache' = cache
       /\ (reqs[r].op = "create" /\ reqs[r].pc = "pendingSet" /\ reqs'[r] # reqs[r])
          => /\ reqs'[r].pc = "done"
             /\ IF reqs'[r].res = "Created"
                THEN /\ PendingKey \in DOMAIN cache'
                     /\ cache'[PendingKey] = [value |-> reqs[r].arg, ttl |-> TTL]
                ELSE reqs'[r].res = "StorageFailure" /\ cache' = cache
       /\ (reqs[r].op = "step6" /\ reqs[r].pc = "create" /\ reqs'[r] # reqs[r])
          => (reqs'[r].res = "Created" => EntityKey(nextId) \in DOMAIN cache')]_vars

\* an approval ended with StorageFailure: the store has the approval, the
\* mirror still shows the entity as pending, and no notification was attempted
C21_Witness ==
  \E r \in Slots :
    /\ reqs[r].op = "approve"
    /\ reqs[r].res = "StorageFailure"
    /\ store[reqs[r].id]["status"] = "APPROVED"
    /\ EntityKey(reqs[r].id) \in DOMAIN cache
    /\ cache[EntityKey(reqs[r].id)].value["status"] = "PENDING"
    /\ mails = <<>>

\* C22: a step call (steps 2 to 6) or stepProgress for a tempId whose record
\* is in the cache never answers SessionExpired, whether or not the cache
\* could be reached for the read.
C22_NoSessionExpiredForLiveRecord ==
  [][\A r \in Slots :
       (/\ Began(r)
        /\ reqs'[r].op \in StepOps \cup {"step6", "progress"}
        /\ TempKey(reqs'[r].id) \in DOMAIN cache)
       => reqs'[r].res # "SessionExpired"]_vars

\* C23: an entityGet whose cache read failed ends with the stored entity when
\* the store has the id and with NotFound when it has not, and with nothing
\* else.
C23_ReadFailureFallsBack ==
  [][\A r \in Slots :
       (/\ reqs[r].op = "get"
        /\ reqs[r].pc \in {"find", "cache"}
        /\ ~reqs[r].arg["cacheUp"]
        /\ reqs'[r].pc = "done")
       => /\ reqs'[r].res \in {"Found", "NotFound"}
          /\ reqs'[r].res = "Found" <=> reqs[r].id \in DOMAIN store]_vars

\* the fields of the in-progress record that step N assigns from its payload
StepKeys(op) ==
  CASE op = "step2" -> {"email", "phone", "dateOfBirth"} [] op = "step3" -> {"address"}
    [] op = "step4" -> {"profilePhoto"} [] op = "step5" -> {"documents"}

\* C24: a successful write of step N (2..5) stores, under the tempId and with
\* a TTL of 1800 seconds, the record the handler read with step = N, the
\* step's tag appended to completedSteps, the step's fields taken from the
\* payload (a contact field the payload leaves undefined is dropped, missing
\* documents become the empty list), and every
\* other field as it was; with one request at a time the record the handler
\* read is the one the cache holds.
C24_StepMerge ==
  [][\A r \in Slots :
       (/\ reqs[r].op \in StepOps
        /\ reqs[r].pc = "write"
        /\ reqs'[r].res = "StepDone")
       => LET op == reqs[r].op
              key == TempKey(reqs[r].id)
              old == reqs[r].snap
              body == reqs[r].arg
              new == cache'[key].value
          IN
          /\ key \in DOMAIN cache => cache[key].value = old
          /\ cache'[key].ttl = TTL
          /\ \A k \in DOMAIN cache' \ {key} : k \in DOMAIN cache /\ cache'[k] = cache[k]
          /\ new["step"] = StepNo(op)
          /\ new["completedSteps"] = Append(old["completedSteps"], StepTag(op))
          /\ op = "step2"
             => \A k \in StepKeys(op) :
                  IF body[k] = Undefined THEN k \notin DOMAIN new ELSE new[k] = body[k]
          /\ op = "step3" => new["address"] = body["address"]
          /\ op = "step4" => new["profilePhoto"] = body["profilePhotoData"]
          /\ op = "step5"
             => new["documents"]
                  = IF "documents" \in DOMAIN body THEN body["documents"] ELSE <<>>
          /\ DOMAIN new \subseteq DOMAIN old \cup StepKeys(op)
          /\ \A k \in DOMAIN old \ (StepKeys(op) \cup {"step", "completedSteps"}) :
               k \in DOMAIN new /\ new[k] = old[k]]_vars

\* stepAddress was written after stepContact: the record has step 3, both
\* tags after basic_info, the address, and still the name, the creator, the
\* status and the email that the earlier steps wrote
C24_Witness ==
  \E r \in Slots :
    /\ reqs[r].op = "step3"
    /\ reqs[r].res = "StepDone"
    /\ TempKey(reqs[r].id) \in DOMAIN cache
    /\ LET rec == cache[TempKey(reqs[r].id)] IN
       /\ rec.ttl = TTL
       /\ rec.value["step"] = 3
       /\ rec.value["completedSteps"] = <<"basic_info", "contact_info", "address_info">>
       /\ rec.value["address"] = AddrA
       /\ rec.value["email"] = "jane@x.com"
       /\ rec.value["name"] = "Jane"
       /\ rec.value["status"] = "PENDING"
       /\ rec.value["createdBy"] = "u1"

\* C25: the step value of an in-progress record stays within 1..6 and no
\* write to the record lowers it.
C25_StepNeverLowers ==
  [][\A t \in 1..MaxTemp :
       (TempKey(t) \in DOMAIN cache /\ TempKey(t) \in DOMAIN cache')
       => /\ cache'[TempKey(t)].value["step"] \in 1..totalSteps
          /\ cache'[TempKey(t)].value["step"] >= cache[TempKey(t)].value["step"]]_vars

StrictPrefix(p, q) == Len(p) < Len(q) /\ \A i \in 1..Len(p) : p[i] = q[i]

\* C26 as stated: whenever the record under a tempId is rewritten, the
\* completedSteps stored before is a strict prefix of the one stored after.
C26_AppendOnly ==
  [][\A t \in 1..MaxTemp :
       (/\ TempKey(t) \in DOMAIN cache
        /\ TempKey(t) \in DOMAIN cache'
        /\ cache'[TempKey(t)] # cache[TempKey(t)])
       => StrictPrefix(cache[TempKey(t)].value["completedSteps"],
                       cache'[TempKey(t)].value["completedSteps"])]_vars

\* C26: a successful step write stores the completedSteps its handler read
\* with one tag appended; the list stored before is a strict prefix of the new
\* one whenever it still is the list the handler read, that is, when no other
\* write to the tempId completed between the handler's read and its write.
C26_AppendToWhatWasRead ==
  [][\A r \in Slots :
       (/\ reqs[r].op \in StepOps
        /\ reqs[r].pc = "write"
        /\ reqs'[r].res = "StepDone")
       => LET key == TempKey(reqs[r].id)
              read == reqs[r].snap["completedSteps"]
              new == cache'[key].value["completedSteps"]
          IN
          /\ Len(new) = Len(read) + 1
          /\ StrictPrefix(read, new)
          /\ new[Len(new)] \in {"contact_info", "address_info", "profile_photo", "documents"}
          /\ (key \in DOMAIN cache /\ cache[key].value["completedSteps"] = read)
             => StrictPrefix(cache[key].value["completedSteps"], new)]_vars

\* stepContact and stepAddress overlapped on one tempId and both succeeded:
\* the record holds one of the two tags only
C26_Witness ==
  /\ reqs[1].op \in {"step2", "step3"}
  /\ reqs[2].op \in {"step2", "step3"}
  /\ reqs[1].op # reqs[2].op
  /\ reqs[1].res = "StepDone"
  /\ reqs[2].res = "StepDone"
  /\ reqs[1].id = reqs[2].id
  /\ TempKey(reqs[1].id) \in DOMAIN cache
  /\ Len(cache[TempKey(reqs[1].id)].value["completedSteps"]) = 2

\* C27: a call to step N (2..5) for a tempId whose record is in the cache is
\* taken up with that record whatever its step and completedSteps are (the
\* one refusal is SessionExpired, given when the cache read failed), and its
\* write, when the cache accepts it, stores step = N and appends the tag of
\* step N.
C27_AnyOrder ==
  [][\A r \in Slots :
       /\ (/\ Began(r)
           /\ reqs'[r].op \in StepOps
           /\ TempKey(reqs'[r].id) \in DOMAIN cache)
          => /\ UNCHANGED <<store, cache>>
             /\ \/ /\ reqs'[r].pc = "write"
                   /\ reqs'[r].snap = cache[TempKey(reqs'[r].id)].value
                \/ /\ reqs'[r].pc = "done"
                   /\ reqs'[r].res = "SessionExpired"
       /\ (reqs[r].op \in StepOps /\ reqs[r].pc = "write" /\ reqs'[r] # reqs[r])
          => /\ reqs'[r].pc = "done"
             /\ reqs'[r].res \in {"StepDone", "StorageFailure"}
             /\ reqs'[r].res = "StepDone"
                => LET new == cache'[TempKey(reqs[r].id)].value IN
                   /\ new["step"] = StepNo(reqs[r].op)
                   /\ new["completedSteps"]
                        = Append(reqs[r].snap["completedSteps"], StepTag(reqs[r].op))]_vars

\* stepAddress directly after stepBegin: step is 3 and contact_info is not
\* among the completed steps
C27_Witness ==
  \E r \in Slots :
    /\ reqs[r].op = "step3"
    /\ reqs[r].res = "StepDone"
    /\ TempKey(reqs[r].id) \in DOMAIN cache
    /\ cache[TempKey(reqs[r].id)].value["step"] = 3
    /\ cache[TempKey(reqs[r].id)].value["completedSteps"] = <<"basic_info", "address_info">>
    /\ "email" \notin DOMAIN cache[TempKey(reqs[r].id)].value

MirrorWriters == {"create", "update", "approve", "reject"}

\* C28: a handler of entityCreate, entityUpdate, entityApprove or
\* entityReject comes to its cache write only through the step that wrote the
\* store (the inserted or updated document is the handler's entity; a save
\* stores the handler's modified paths), and entity:<id> changes in no other
\* step than such a cache write, which puts the handler's whole entity there
\* with a TTL of 1800 seconds; operations that are refused or whose store
\* write fails never come to it.
C28_StoreBeforeCache ==
  [][/\ \A r \in Slots :
          (/\ reqs'[r].op \in MirrorWriters
           /\ reqs'[r].pc = "cache"
           /\ reqs'[r] # reqs[r])
          => LET id == reqs'[r].id
                 entity == reqs'[r].snap
             IN
             /\ cache' = cache
             /\ id \in DOMAIN store'
             /\ reqs'[r].op = "create" => id \notin DOMAIN store /\ store'[id] = entity
             /\ reqs'[r].op = "update" => store'[id] = entity
             /\ reqs'[r].op \in {"approve", "reject"}
                => \A k \in reqs'[r].arg["paths"] : store'[id][k] = entity[k]
     /\ \A key \in DOMAIN cache' :
          (key[1] = "entity" /\ (key \notin DOMAIN cache \/ cache'[key] # cache[key]))
          => \E r \in Slots :
               /\ reqs[r].op \in MirrorWriters
               /\ reqs[r].pc = "cache"
               /\ reqs'[r] # reqs[r]
               /\ key = EntityKey(reqs[r].id)
               /\ store' = store
               /\ cache'[key] = [value |-> JSONRoundTrip(toJSON(reqs[r].snap)), ttl |-> TTL]
     /\ \A key \in DOMAIN cache : key[1] = "entity" => key \in DOMAIN cache']_vars

\* an update was refused for an approved entity after the approval had been
\* stored and mirrored: store and mirror hold the same approved snapshot
C28_Witness ==
  \E r \in Slots :
    /\ reqs[r].op = "update"
    /\ reqs[r].res = "InvalidState"
    /\ reqs[r].id \in DOMAIN store
    /\ store[reqs[r].id]["status"] = "APPROVED"
    /\ EntityKey(reqs[r].id) \in DOMAIN cache
    /\ cache[EntityKey(reqs[r].id)]
         = [value |-> JSONRoundTrip(toJSON(store[reqs[r].id])), ttl |-> TTL]

\* C29: every write of stepBegin or of steps 2 to 5 leaves the record with
\* the full 1800 seconds; stepProgress leaves the cache, the remaining time
\* included, as it is; as time passes the remaining time of a record goes
\* down and the record is gone once 1800 seconds have passed without a
\* write; and a step call or stepProgress that finds no record answers
\* SessionExpired and changes nothing.
C29_SlidingExpiry ==
  [][/\ \A r \in Slots :
          /\ (Began(r) /\ reqs'[r].op = "step1" /\ reqs'[r].res = "Step1Done")
             => cache'[TempKey(reqs'[r].id)].ttl = TTL
          /\ (reqs[r].op \in StepOps /\ reqs[r].pc = "write" /\ reqs'[r].res = "StepDone")
             => cache'[TempKey(reqs[r].id)].ttl = TTL
          /\ (Began(r) /\ reqs'[r].op = "progress") => cache' = cache
          /\ (/\ Began(r)
              /\ reqs'[r].op \in StepOps \cup {"step6", "progress"}
              /\ TempKey(reqs'[r].id) \notin DOMAIN cache)
             => /\ reqs'[r].pc = "done"
                /\ reqs'[r].res = "SessionExpired"
                /\ UNCHANGED <<store, cache>>
     /\ (reqs' = reqs /\ cache' # cache)
        => \A t \in 1..MaxTemp :
             TempKey(t) \in DOMAIN cache
             => IF cache[TempKey(t)].ttl > TickSeconds
                THEN /\ TempKey(t) \in DOMAIN cache'
                     /\ cache'[TempKey(t)].ttl = cache[TempKey(t)].ttl - TickSeconds
                     /\ cache'[TempKey(t)].value = cache[TempKey(t)].value
                ELSE TempKey(t) \notin DOMAIN cache'
     /\ \A t \in 1..MaxTemp :
          TempKey(t) \in DOMAIN cache' => cache'[TempKey(t)].ttl \in 1..TTL]_vars

\* stepProgress answered SessionExpired for a tempId that was handed out and
\* has no record in the cache
C29_Witness ==
  \E r \in Slots :
    /\ reqs[r].op = "progress"
    /\ reqs[r].res = "SessionExpired"
    /\ reqs[r].id < nextTemp
    /\ TempKey(reqs[r].id) \notin DOMAIN cache

DecisionFields == {"approvedBy", "approvalDate", "rejectedBy", "rejectionDate"}

\* C30: the store write of entityUpdate leaves the entity's status outside
\* APPROVED and REJECTED and leaves approvedBy, approvalDate, rejectedBy and
\* rejectionDate as they were; and every stored entity that is APPROVED has
\* approvedBy and approvalDate, every one that is REJECTED a rejectionReason.
C30_UpdateNeverDecides ==
  [][/\ \A r \in Slots :
          (/\ reqs[r].op = "update"
           /\ reqs[r].pc = "update"
           /\ reqs'[r] # reqs[r]
           /\ reqs[r].id \in DOMAIN store)
          => /\ store'[reqs[r].id]["status"] \notin Terminal
             /\ Pick(store'[reqs[r].id], DecisionFields) = Pick(store[reqs[r].id], DecisionFields)
     /\ \A id \in DOMAIN store' :
          /\ store'[id]["status"] = "APPROVED"
             => Truthy(store'[id], "approvedBy") /\ Truthy(store'[id], "approvalDate")
          /\ store'[id]["status"] = "REJECTED" => Truthy(store'[id], "rejectionReason")]_vars
C32_MirrorEqualsStore ==
  (\A r \in Slots : reqs[r].pc = "done")
  => \A id \in EntityIds :
       EntityKey(id) \in DOMAIN cache
       => /\ id \in DOMAIN store
          /\ OwnFields(cache[EntityKey(id)].value)
               = OwnFields(JSONRoundTrip(toJSON(store[id])))

\* C33: once stepCancel on a handed-out tempId has answered success and the
\* record is absent, the record stays absent.
C33_CancelIsFinal ==
  [][\A t \in 1..(nextTemp - 1) :
       (/\ \E r \in Slots : reqs[r].op = "cancel" /\ reqs[r].res = "Cancelled"
                                /\ reqs[r].id = t
        /\ TempKey(t) \notin DOMAIN cache)
       => TempKey(t) \notin DOMAIN cache']_vars

\* C33 (amended): a stepCancel that answers success leaves the record absent;
\* a step 2 to 5 call that begins while the record is absent answers
\* SessionExpired at once and writes nothing; and the only steps that make an
\* absent record present are stepBegin handing out that tempId for the first
\* time and the write of a step call in flight, which read the record while it
\* was present.
C33_OnlyCallsInFlightWriteBack ==
  [][/\ \A r \in Slots :
          (Began(r) /\ reqs'[r].op = "cancel" /\ reqs'[r].res = "Cancelled")
          => TempKey(reqs'[r].id) \notin DOMAIN cache'
     /\ \A r \in Slots :
          (Began(r) /\ reqs'[r].op \in StepOps /\ TempKey(reqs'[r].id) \notin DOMAIN cache)
          => /\ reqs'[r].pc = "done"
             /\ reqs'[r].res = "SessionExpired"
             /\ cache' = cache
     /\ \A t \in TempIds :
          (TempKey(t) \notin DOMAIN cache /\ TempKey(t) \in DOMAIN cache')
          => \/ /\ t = nextTemp
                /\ nextTemp' = nextTemp + 1
                /\ \E r \in Slots : Began(r) /\ reqs'[r].op = "step1" /\ reqs'[r].id = t
             \/ \E r \in Slots :
                  /\ reqs[r].op \in StepOps
                  /\ reqs[r].pc = "write"
                  /\ reqs[r].id = t
                  /\ reqs'[r].res = "StepDone"
                  /\ cache'[TempKey(t)].value["completedSteps"]
                       = Append(reqs[r].snap["completedSteps"], StepTag(reqs[r].op))]_vars

\* a stepCancel answered success while a step call on the same tempId was in
\* flight, and that call has written the record back
C33_Witness ==
  \E t \in 1..(nextTemp - 1) : \E r1, r2 \in Slots :
    /\ r1 # r2
    /\ reqs[r1].op = "cancel" /\ reqs[r1].res = "Cancelled" /\ reqs[r1].id = t
    /\ reqs[r2].op \in StepOps /\ reqs[r2].res = "StepDone" /\ reqs[r2].id = t
    /\ TempKey(t) \in DOMAIN cache

\* C34: when two calls for different steps on one tempId have both answered
\* success, the record holds the tags and the fields of both steps.
C34_BothStepsKept ==
  \A r1, r2 \in Slots :
    (/\ reqs[r1].op \in StepOps /\ reqs[r1].res = "StepDone"
     /\ reqs[r2].op \in StepOps /\ reqs[r2].res = "StepDone"
     /\ reqs[r1].op # reqs[r2].op
     /\ reqs[r1].id = reqs[r2].id
     /\ TempKey(reqs[r1].id) \in DOMAIN cache)
    => \A op \in {reqs[r1].op, reqs[r2].op} :
         LET rec == cache[TempKey(reqs[r1].id)].value IN
         /\ InSeq(StepTag(op), rec["completedSteps"])
         /\ (op = "step2" => "email" \in DOMAIN rec)
         /\ (op = "step3" => "address" \in DOMAIN rec)

\* C34 (amended): a successful step write stores the step's own fields and
\* tag on top of the record that call read: the tag and the fields of every
\* other step are in the record afterwards exactly when they were in the
\* record the call read, with the values it read.  What another call wrote
\* between this call's read and its write is not in the record afterwards.
C34_LastWriteWins ==
  [][\A r \in Slots :
       (/\ reqs[r].op \in StepOps /\ reqs[r].pc = "write" /\ reqs'[r].res = "StepDone")
       => LET read == reqs[r].snap
              new == cache'[TempKey(reqs[r].id)].value
          IN
          /\ InSeq(StepTag(reqs[r].op), new["completedSteps"])
          /\ (reqs[r].op = "step2" => new["email"] = reqs[r].arg["email"])
          /\ (reqs[r].op = "step3" => new["address"] = reqs[r].arg["address"])
          /\ \A other \in StepOps \ {reqs[r].op} :
               /\ InSeq(StepTag(other), new["completedSteps"])
                    <=> InSeq(StepTag(other), read["completedSteps"])
               /\ \A k \in StepKeys(other) :
                    /\ k \in DOMAIN new <=> k \in DOMAIN read
                    /\ k \in DOMAIN read => new[k] = read[k]]_vars

\* stepContact and stepAddress overlapped on one tempId and both answered
\* success; the record holds the tag of one of them only
C34_Witness ==
  \E r1, r2 \in Slots :
    /\ reqs[r1].op = "step2" /\ reqs[r1].res = "StepDone"
    /\ reqs[r2].op = "step3" /\ reqs[r2].res = "StepDone"
    /\ reqs[r1].id = reqs[r2].id
    /\ TempKey(reqs[r1].id) \in DOMAIN cache
    /\ LET done == cache[TempKey(reqs[r1].id)].value["completedSteps"] IN
       /\ Len(done) = 2
       /\ InSeq("contact_info", done) # InSeq("address_info", done)

\* C35: an entityApprove or entityReject call that answers with a failure
\* leaves the durable status and decision metadata as they were before the
\* call: a refusal writes nothing, and when the call ends with StorageFailure
\* the store holds the status the call had read and none of the values the
\* call set.
C35_FailureLeavesEntity ==
  [][\A r \in Slots :
       /\ (/\ Began(r)
           /\ reqs'[r].op \in {"approve", "reject"}
           /\ reqs'[r].res \in {"NotFound", "AlreadyApproved", "AlreadyRejected",
                                 "InvalidTransition", "MissingReason"})
          => store' = store
       /\ (/\ reqs[r].op \in {"approve", "reject"}
           /\ reqs[r].pc # "done"
           /\ reqs'[r].res = "StorageFailure"
           /\ reqs[r].id \in DOMAIN store')
          => /\ store'[reqs[r].id]["status"] = reqs[r].arg["seen"]
             /\ \A k \in reqs[r].arg["paths"] \ {"approvalDate", "rejectionDate"} :
                  Get(store'[reqs[r].id], k) # reqs[r].snap[k]]_vars

\* C35 (amended): a call refused with NotFound, AlreadyApproved,
\* AlreadyRejected, InvalidTransition or MissingReason ends at once and writes
\* nothing.  A call that passed the checks first saves its status and decision
\* metadata; when the cache write that follows is refused, the call ends with
\* StorageFailure, no notification is attempted, and neither the store nor the
\* cache changes at that step: what the call saved stays in the store.
C35_OnlyRefusalsLeaveEntity ==
  [][\A r \in Slots :
       /\ (/\ Began(r)
           /\ reqs'[r].op \in {"approve", "reject"}
           /\ reqs'[r].res \in {"NotFound", "AlreadyApproved", "AlreadyRejected",
                                 "InvalidTransition", "MissingReason"})
          => /\ reqs'[r].pc = "done"
             /\ UNCHANGED <<store, cache, mails>>
       /\ (reqs[r].op \in {"approve", "reject"} /\ reqs[r].pc = "save"
              /\ reqs'[r].pc = "cache")
          => /\ store'[reqs[r].id]["status"]
                  = (IF reqs[r].op = "approve" THEN "APPROVED" ELSE "REJECTED")
             /\ \A k \in reqs[r].arg["paths"] :
                  store'[reqs[r].id][k] = reqs[r].snap[k]
       /\ (reqs[r].op \in {"approve", "reject"} /\ reqs'[r].res = "StorageFailure"
              /\ reqs[r].pc # "done")
          => /\ reqs[r].pc = "cache"
             /\ reqs'[r].pc = "done"
             /\ UNCHANGED <<store, cache, mails>>]_vars

\* an entityApprove ended with StorageFailure: the store holds APPROVED and
\* the approver, the cache mirror still shows the entity as PENDING, and no
\* notification was attempted
C35_Witness ==
  \E r \in Slots :
    /\ reqs[r].op = "approve"
    /\ reqs[r].res = "StorageFailure"
    /\ reqs[r].id \in DOMAIN store
    /\ store[reqs[r].id]["status"] = "APPROVED"
    /\ store[reqs[r].id]["approvedBy"] = "u1"
    /\ EntityKey(reqs[r].id) \in DOMAIN cache
    /\ cache[EntityKey(reqs[r].id)].value["status"] = "PENDING"
    /\ mails = <<>>

\* C36: for every entity at most one outcome notification is ever attempted.
C36_OneNotificationPerEntity ==
  \A id \in EntityIds :
    Cardinality({i \in 1..Len(mails) : mails[i].id = id}) <= 1

\* C36 (amended): every notification is attempted by an entityApprove or
\* entityReject call that read the entity as PENDING or UNDER_REVIEW, saved its
\* decision and then wrote the cache mirror; it is of that call's kind, for
\* that call's entity, and the call ends with it, so a call attempts at most
\* one.  The store and the cache do not change at the notification.
C36_NotifiedByDecidingCall ==
  [][/\ mails' # mails
        => \E r \in Slots :
             /\ reqs[r].op \in {"approve", "reject"}
             /\ reqs[r].pc = "mail"
             /\ reqs[r].arg["seen"] \in {"PENDING", "UNDER_REVIEW"}
             /\ reqs'[r].pc = "done"
             /\ Len(mails') = Len(mails) + 1
             /\ SubSeq(mails', 1, Len(mails)) = mails
             /\ mails'[Len(mails')].id = reqs[r].id
             /\ mails'[Len(mails')].kind
                  = (IF reqs[r].op = "approve" THEN "approved" ELSE "rejected")
             /\ UNCHANGED <<store, cache>>
     /\ \A r \in Slots :
          /\ (reqs'[r].op \in {"approve", "reject"} /\ reqs'[r].pc = "mail"
                 /\ reqs[r].pc # "mail")
             => /\ reqs[r].op = reqs'[r].op
                /\ reqs[r].pc = "cache"
                /\ cache'[EntityKey(reqs[r].id)].value["status"]
                     = (IF reqs[r].op = "approve" THEN "APPROVED" ELSE "REJECTED")
          /\ (reqs'[r].op \in {"approve", "reject"} /\ reqs'[r].pc = "cache"
                 /\ reqs[r].pc # "cache")
             => /\ reqs[r].op = reqs'[r].op
                /\ reqs[r].pc = "save"
                /\ store'[reqs[r].id]["status"]
                     = (IF reqs[r].op = "approve" THEN "APPROVED" ELSE "REJECTED")]_vars

\* an entityApprove and an entityReject on one entity overlapped: the entity
\* got an approved and a rejected notification
C36_Witness ==
  \E i, j \in 1..Len(mails) :
    /\ mails[i].id = mails[j].id
    /\ mails[i].kind = "approved"
    /\ mails[j].kind = "rejected"

\* C37: in every in-progress record completedSteps holds no tag twice and at
\* most 6 tags, and every progress report gives a percentage from 0 to 100.
C37_TagsOnceEach ==
  /\ \A t \in 1..MaxTemp :
       TempKey(t) \in DOMAIN cache
       => LET done == cache[TempKey(t)].value["completedSteps"] IN
          /\ Len(done) <= totalSteps
          /\ \A i, j \in 1..Len(done) : done[i] = done[j] => i = j
  /\ \A r \in Slots :
       (reqs[r].op = "progress" /\ reqs[r].res = "Progress")
       => reqs[r].snap["progress"] \in 0..100

\* C38: every entityStats result has total = pending + approved + rejected +
\* underReview (as it must when all five numbers are counts of the store at one
\* point in time).
C38_TotalIsSum ==
  \A r \in Slots :
    (reqs[r].op = "stats" /\ reqs[r].res = "Stats")
    => reqs[r].snap["total"]
         = reqs[r].snap["pending"] + reqs[r].snap["approved"]
             + reqs[r].snap["rejected"] + reqs[r].snap["underReview"]

\* C39: whenever no operation is in flight, every entity held in the cached
\* list entities:pending is in the durable store with status PENDING.
C39_PendingListIsPending ==
  ((\A r \in Slots : reqs[r].pc = "done") /\ PendingKey \in DOMAIN cache)
  => LET list == cache[PendingKey].value["list"] IN
     \A i \in 1..Len(list) :
       /\ list[i]["_id"] \in DOMAIN store
       /\ store[list[i]["_id"]]["status"] = "PENDING"

====
